---- MODULE Spec2Model ----
(***************************************************************************)
(* A model of the transport core of go-scryfall (src/scryfall.go, first    *)
(* version in the file, lines 1-330): client construction from functional  *)
(* options, the single HTTP dispatch path doReq shared by get, post and    *)
(* listGet, the rate limiter admission step, the JSON decoding of the      *)
(* success body, the error envelope and the list envelope, the JSON        *)
(* encoding of the request body, and the Date and Timestamp codecs.        *)
(***************************************************************************)
EXTENDS Integers, Sequences, FiniteSets, TLC

VARIABLES
    options,       \* the option sequence NewClient was called with
    constructed,   \* TRUE once NewClient has returned
    client,        \* *Client returned by NewClient: <<>> is nil, <<c>> points to c
    newErr,        \* the error returned by NewClient
    call,          \* per goroutine: the get/post/listGet invocation it is in
    calls,         \* number of invocations started so far
    recentAdmits,  \* ages (in ticks) of the limiter admissions of the last second
    recentBegins,  \* ages (in ticks) of the HTTP calls begun in the last second
    admissions,    \* total number of limiter admissions granted
    roundTrips,    \* total number of HTTP round trips begun
    codec,         \* a Date or Timestamp receiver, the bytes last read or written
    local,         \* time.Local of the machine, seconds east of UTC
    second         \* a second client, built by a NewClient call of its own

vars == <<options, constructed, client, newErr, call, calls,
          recentAdmits, recentBegins, admissions, roundTrips, codec, local, second>>

----------------------------------------------------------------------------
(* Bounds of the model.                                                    *)

\* longest option sequence handed to NewClient
MaxOpts == 3
\* invocations started in one run
MaxCalls == 2
\* clock ticks that make up one second
Window == 2
\* goroutines sharing the client in the concurrent specification
NumGoroutines == 2

----------------------------------------------------------------------------
(* Program constants.                                                      *)

Version == "0.9.0"
defaultBaseURL == "https://api.scryfall.com"
defaultUserAgent == "go-scryfall/" \o Version
defaultTimeout == 30
defaultReqPerSecond == 10
StatusOK == 200
StatusNotFound == 404

ErrNil == "nil"
ErrMultipleSecrets == "multiple secrets configured"
ErrURLParse == "url.Error"

----------------------------------------------------------------------------
(* Pointers and interfaces: <<>> is nil, <<v>> is a non-nil one holding v. *)

Nil == <<>>
Ref(v) == <<v>>

\* ratelimit.New(rate): a limiter admitting `rate` calls per second
ratelimitNew(rate) == Ref([rate |-> rate])

\* &http.Client{Timeout: t}
httpClient(t) == Ref([Timeout |-> t])

\* url.Parse fails on these strings (a leading colon: "missing protocol scheme")
MalformedURLs == {":bad"}
urlParseOK(s) == s \notin MalformedURLs

----------------------------------------------------------------------------
(* Functional options: each is a field assignment on clientOptions.        *)

WithBaseURL(baseURL) == [field |-> "baseURL", str |-> baseURL, ref |-> Nil]
WithUserAgent(userAgent) == [field |-> "userAgent", str |-> userAgent, ref |-> Nil]
WithClientSecret(clientSecret) == [field |-> "clientSecret", str |-> clientSecret, ref |-> Nil]
WithGrantSecret(grantSecret) == [field |-> "grantSecret", str |-> grantSecret, ref |-> Nil]
WithHTTPClient(c) == [field |-> "client", str |-> "", ref |-> c]
WithLimiter(limiter) == [field |-> "limiter", str |-> "", ref |-> limiter]

\* WithLimiter written to keep the default when handed a nil limiter
ApplyOption_nilLimiterIgnored(option, co) ==
    CASE option.field = "baseURL" -> [co EXCEPT !.baseURL = option.str]
      [] option.field = "userAgent" -> [co EXCEPT !.userAgent = option.str]
      [] option.field = "clientSecret" -> [co EXCEPT !.clientSecret = option.str]
      [] option.field = "grantSecret" -> [co EXCEPT !.grantSecret = option.str]
      [] option.field = "client" -> [co EXCEPT !.client = option.ref]
      [] option.field = "limiter" ->
            IF option.ref = <<>> THEN co ELSE [co EXCEPT !.limiter = option.ref]

\* option(co): the closure body of each With... function
ApplyOption(option, co) ==
    CASE option.field = "baseURL" -> [co EXCEPT !.baseURL = option.str]
      [] option.field = "userAgent" -> [co EXCEPT !.userAgent = option.str]
      [] option.field = "clientSecret" -> [co EXCEPT !.clientSecret = option.str]
      [] option.field = "grantSecret" -> [co EXCEPT !.grantSecret = option.str]
      [] option.field = "client" -> [co EXCEPT !.client = option.ref]
      [] option.field = "limiter" -> [co EXCEPT !.limiter = option.ref]

\* co := &clientOptions{...} with the defaults of NewClient
defaultClientOptions ==
    [baseURL |-> defaultBaseURL,
     userAgent |-> defaultUserAgent,
     clientSecret |-> "",
     grantSecret |-> "",
     client |-> httpClient(defaultTimeout),
     limiter |-> ratelimitNew(defaultReqPerSecond)]

\* the options are applied last to first, so the first value given wins
RECURSIVE ApplyOptions_lastToFirst(_, _)
ApplyOptions_lastToFirst(opts, co) ==
    IF opts = <<>> THEN co
    ELSE ApplyOption(Head(opts), ApplyOptions_lastToFirst(Tail(opts), co))

\* for _, option := range options { option(co) }
RECURSIVE ApplyOptions(_, _)
ApplyOptions(opts, co) ==
    IF opts = <<>> THEN co
    ELSE ApplyOptions(Tail(opts), ApplyOption(Head(opts), co))

\* a validation that runs before the options are applied sees no secret
secretsConflict_beforeOptions(co) ==
    Len(defaultClientOptions.clientSecret) # 0 /\ Len(defaultClientOptions.grantSecret) # 0

\* len(co.clientSecret) != 0 && len(co.grantSecret) != 0
secretsConflict(co) ==
    Len(co.clientSecret) # 0 /\ Len(co.grantSecret) # 0

\* The (client, error) pair NewClient returns for an option sequence.
NewClientResult(opts) ==
    LET co == ApplyOptions(opts, defaultClientOptions)
        fromClientSecret ==
            IF Len(co.clientSecret) # 0 THEN "Bearer " \o co.clientSecret ELSE ""
        authorization ==
            IF Len(co.grantSecret) # 0 THEN "Bearer " \o co.grantSecret
            ELSE fromClientSecret
    IN  IF secretsConflict(co)
        THEN [c |-> Nil, err |-> ErrMultipleSecrets]
        ELSE IF ~urlParseOK(co.baseURL)
        THEN [c |-> Nil, err |-> ErrURLParse]
        ELSE [c |-> Ref([baseURL |-> co.baseURL,
                         userAgent |-> co.userAgent,
                         authorization |-> authorization,
                         client |-> co.client,
                         limiter |-> co.limiter]),
              err |-> ErrNil]

----------------------------------------------------------------------------
(* JSON values on the wire and Go values in memory share one shape: a tag  *)
(* t and one payload field per kind.  An object carries a function from    *)
(* every member name of Members to its value, JAbsent for a missing one.   *)

JV(t, s, n, b, a, o) == [t |-> t, s |-> s, n |-> n, b |-> b, a |-> a, o |-> o]
JAbsent == JV("absent", "", 0, FALSE, <<>>, <<>>)
JNull == JV("null", "", 0, FALSE, <<>>, <<>>)
JStr(s) == JV("string", s, 0, FALSE, <<>>, <<>>)
JNum(n) == JV("number", "", n, FALSE, <<>>, <<>>)
JBool(b) == JV("bool", "", 0, b, <<>>, <<>>)
JArr(a) == JV("array", "", 0, FALSE, a, <<>>)
JObj(o) == JV("object", "", 0, FALSE, <<>>, <<o>>)
\* a Go nil pointer, nil slice or empty json.RawMessage
GoNil == JV("nil", "", 0, FALSE, <<>>, <<>>)
\* response bodies that are no JSON value at all
BodyEmpty == JV("empty", "", 0, FALSE, <<>>, <<>>)
BodyMalformed == JV("malformed", "<html>", 0, FALSE, <<>>, <<>>)

Members == {"object", "status", "code", "details", "type", "warnings",
            "id", "name", "mtgo_id", "set", "symbol", "transposable",
            "data", "has_more", "next_page", "total_cards", "identifiers"}

\* the JSON object with the members of record r
Obj(r) == JObj([m \in Members |-> IF m \in DOMAIN r THEN r[m] ELSE JAbsent])

----------------------------------------------------------------------------
(* Go destination types: the json tags of each struct and the type of the  *)
(* field behind each tag.                                                  *)

StructTypes == {"Error", "Card", "CardSymbol", "listResponse", "CardListResponse",
                "CardIdentifier", "GetCardsByIdentifiersRequest"}

StructFields(ty) ==
    CASE ty = "Error" ->
            [status |-> "int", code |-> "string", details |-> "string",
             type |-> "*string", warnings |-> "[]string"]
      [] ty = "Card" ->
            [id |-> "string", name |-> "string", mtgo_id |-> "*int"]
      [] ty = "CardSymbol" ->
            [symbol |-> "string", transposable |-> "bool"]
      [] ty = "listResponse" ->
            [data |-> "RawMessage", has_more |-> "bool", next_page |-> "*string",
             total_cards |-> "*int", warnings |-> "[]string"]
      [] ty = "CardListResponse" ->
            [data |-> "[]Card", has_more |-> "bool", next_page |-> "*string",
             total_cards |-> "int", warnings |-> "[]string"]
      [] ty = "CardIdentifier" ->
            [id |-> "string", mtgo_id |-> "int", name |-> "string", set |-> "string"]
      [] ty = "GetCardsByIdentifiersRequest" ->
            [identifiers |-> "[]CardIdentifier"]

\* the json tags of a struct that carry the omitempty option
OmitEmpty(ty) ==
    CASE ty = "CardIdentifier" -> {"id", "mtgo_id", "name", "set"}
      [] ty = "Card" -> {"mtgo_id"}
      [] OTHER -> {}

\* element type of a slice type
ElemType(ty) ==
    CASE ty = "[]string" -> "string"
      [] ty = "[]CardSymbol" -> "CardSymbol"
      [] ty = "[]Card" -> "Card"
      [] ty = "[]CardIdentifier" -> "CardIdentifier"

IsSlice(ty) == ty \in {"[]string", "[]CardSymbol", "[]Card", "[]CardIdentifier"}

\* the zero value of a Go type
Zero(ty) ==
    CASE ty = "int" -> JNum(0)
      [] ty = "string" -> JStr("")
      [] ty = "bool" -> JBool(FALSE)
      [] ty \in StructTypes ->
            JObj([f \in DOMAIN StructFields(ty) |->
                    LET ft == StructFields(ty)[f]
                    IN  CASE ft = "int" -> JNum(0)
                          [] ft = "string" -> JStr("")
                          [] ft = "bool" -> JBool(FALSE)
                          [] OTHER -> GoNil])
      [] OTHER -> GoNil

JSONOk == "nil"
UnmarshalTypeError == "json.UnmarshalTypeError"
SyntaxError == "json.SyntaxError"
EOF == "io.EOF"

FirstErr(errs) ==
    IF \A i \in DOMAIN errs : errs[i] = JSONOk THEN JSONOk ELSE UnmarshalTypeError

\* encoding/json storing the JSON value jv into a Go value of type ty that
\* currently holds old: a JSON null leaves scalars and structs untouched and
\* sets pointers and slices to nil; a value of the wrong JSON kind is
\* skipped and reported as UnmarshalTypeError while decoding goes on; object
\* members without a field are ignored and fields without a member keep
\* their value.
RECURSIVE decodeValue(_, _, _)
decodeValue(jv, ty, old) ==
    CASE ty = "RawMessage" -> [err |-> JSONOk, val |-> jv]
      [] ty = "int" ->
            IF jv.t = "number" THEN [err |-> JSONOk, val |-> jv]
            ELSE IF jv.t = "null" THEN [err |-> JSONOk, val |-> old]
            ELSE [err |-> UnmarshalTypeError, val |-> old]
      [] ty = "string" ->
            IF jv.t = "string" THEN [err |-> JSONOk, val |-> jv]
            ELSE IF jv.t = "null" THEN [err |-> JSONOk, val |-> old]
            ELSE [err |-> UnmarshalTypeError, val |-> old]
      [] ty = "bool" ->
            IF jv.t = "bool" THEN [err |-> JSONOk, val |-> jv]
            ELSE IF jv.t = "null" THEN [err |-> JSONOk, val |-> old]
            ELSE [err |-> UnmarshalTypeError, val |-> old]
      [] ty = "*string" ->
            IF jv.t = "string" THEN [err |-> JSONOk, val |-> jv]
            ELSE IF jv.t = "null" THEN [err |-> JSONOk, val |-> GoNil]
            ELSE [err |-> UnmarshalTypeError, val |-> old]
      [] ty = "*int" ->
            IF jv.t = "number" THEN [err |-> JSONOk, val |-> jv]
            ELSE IF jv.t = "null" THEN [err |-> JSONOk, val |-> GoNil]
            ELSE [err |-> UnmarshalTypeError, val |-> old]
      [] IsSlice(ty) ->
            IF jv.t = "array"
            THEN LET elems == [i \in DOMAIN jv.a |->
                                 decodeValue(jv.a[i], ElemType(ty), Zero(ElemType(ty)))]
                 IN  [err |-> FirstErr([i \in DOMAIN elems |-> elems[i].err]),
                      val |-> JArr([i \in DOMAIN elems |-> elems[i].val])]
            ELSE IF jv.t = "null" THEN [err |-> JSONOk, val |-> GoNil]
            ELSE [err |-> UnmarshalTypeError, val |-> old]
      [] ty \in StructTypes ->
            IF jv.t = "object"
            THEN LET fields == StructFields(ty)
                     names == DOMAIN fields
                     members == jv.o[1]
                     dec == [f \in names |->
                               IF members[f] = JAbsent
                               THEN [err |-> JSONOk, val |-> old.o[1][f]]
                               ELSE decodeValue(members[f], fields[f], old.o[1][f])]
                 IN  [err |-> IF \A f \in names : dec[f].err = JSONOk
                              THEN JSONOk ELSE UnmarshalTypeError,
                      val |-> JObj([f \in names |-> dec[f].val])]
            ELSE IF jv.t = "null" THEN [err |-> JSONOk, val |-> old]
            ELSE [err |-> UnmarshalTypeError, val |-> old]

\* json.NewDecoder(body).Decode(v): the next JSON value of the stream
Decode(body, ty, old) ==
    CASE body.t = "empty" -> [err |-> EOF, val |-> old]
      [] body.t = "malformed" -> [err |-> SyntaxError, val |-> old]
      [] OTHER -> decodeValue(body, ty, old)

\* json.Unmarshal(data, v): no bytes at all is "unexpected end of JSON input"
Unmarshal(data, ty, old) ==
    CASE data.t \in {"nil", "absent", "empty", "malformed"} ->
            [err |-> SyntaxError, val |-> old]
      [] OTHER -> decodeValue(data, ty, old)

----------------------------------------------------------------------------
(* Requests, responses and the state of one get/post/listGet invocation.   *)

TestServerURL == "http://127.0.0.1:8080"

\* an http.Header restricted to the four headers the client sets
emptyHeader == [UserAgent |-> Nil, Accept |-> Nil, Authorization |-> Nil, ContentType |-> Nil]

NoError == [type |-> ErrNil, api |-> GoNil]

\* an interface{} argument: the dynamic type and the value it holds
Iface(ty, v) == [ty |-> ty, v |-> v]
NilIface == Iface("nil", GoNil)

\* a context.Context is modelled by what its Err() returns: nil until it is
\* done, then context.Canceled or context.DeadlineExceeded
Background == ErrNil
Canceled == "context canceled"
DeadlineExceeded == "context deadline exceeded"

\* on is the client the invocation is made on, the first or the second;
\* relativeURL and reqBody are the arguments of get and post, body the bytes
\* put on the wire; ctx is the caller's context, ctxAt the point the
\* invocation had reached when the context became done, withContext whether
\* the request handed to c.client.Do carries it; doErr is the error
\* c.client.Do returned, ret the value the accessor that made the call hands
\* to its own caller
idleCall ==
    [pc |-> "idle", kind |-> "", method |-> "", relativeURL |-> "", url |-> "",
     reqBody |-> NilIface, body |-> GoNil, header |-> emptyHeader,
     destType |-> "", on |-> 1, ctx |-> Background, ctxAt |-> "", withContext |-> FALSE,
     took |-> 0, trips |-> 0, doErr |-> ErrNil, resp |-> Nil, err |-> NoError,
     dest |-> GoNil, ret |-> GoNil]

\* a request body value json.Marshal rejects (a channel or a func)
Unmarshalable == Iface("chan", GoNil)
marshalOK(reqBody) == reqBody.ty # "chan"

\* encoding/json: false, 0, a nil pointer or slice, an empty slice or string
isEmptyValue(v) ==
    \/ v.t = "nil"
    \/ v = JNum(0)
    \/ v = JStr("")
    \/ v = JBool(FALSE)
    \/ v.t = "array" /\ Len(v.a) = 0

\* json.Marshal of the Go value v of type ty: a struct becomes an object with
\* one member per json tag, the omitempty fields holding an empty value left
\* out; a nil pointer or slice becomes null
RECURSIVE Marshal(_, _)
Marshal(v, ty) ==
    CASE ty \in StructTypes ->
            LET fields == StructFields(ty)
            IN  JObj([m \in Members |->
                    IF m \notin DOMAIN fields THEN JAbsent
                    ELSE IF m \in OmitEmpty(ty) /\ isEmptyValue(v.o[1][m]) THEN JAbsent
                    ELSE Marshal(v.o[1][m], fields[m])])
      [] IsSlice(ty) ->
            IF v.t = "nil" THEN JNull
            ELSE JArr([i \in DOMAIN v.a |-> Marshal(v.a[i], ElemType(ty))])
      [] OTHER -> IF v.t = "nil" THEN JNull ELSE v

\* c.baseURL.Parse(relativeURL).String()
absoluteURL(c, relativeURL) == c.baseURL \o "/" \o relativeURL

\* The limiter hands out an admission when fewer than `rate` were handed
\* out during the last second.
LimiterAdmits(limiter, recent) == Len(recent) < limiter[1].rate

\* the User-Agent is the package constant, whatever the client was given
setHeaders_constantUserAgent(c, header) ==
    LET h1 == [header EXCEPT !.UserAgent = Ref(defaultUserAgent),
                             !.Accept = Ref("application/json")]
    IN  IF Len(c.authorization) # 0
        THEN [h1 EXCEPT !.Authorization = Ref(c.authorization)]
        ELSE h1

\* the Authorization header is set without looking at its length
setHeaders_alwaysAuthorization(c, header) ==
    [header EXCEPT !.UserAgent = Ref(c.userAgent),
                   !.Accept = Ref("application/json"),
                   !.Authorization = Ref(c.authorization)]

\* the headers doReq sets on the request
setHeaders(c, header) ==
    LET h1 == [header EXCEPT !.UserAgent = Ref(c.userAgent),
                             !.Accept = Ref("application/json")]
    IN  IF Len(c.authorization) # 0
        THEN [h1 EXCEPT !.Authorization = Ref(c.authorization)]
        ELSE h1

\* the request goes out without the limiter being asked
admissionStep_skipped(c) == "do"

\* if c.limiter != nil { c.limiter.Take() }: where doReq is after the headers
admissionStep(c) == IF c.limiter # Nil THEN "take" ELSE "do"

\* c.client.Do is handed req, not reqWithContext
doReqEnter_dropsContext(c, kind, method, url, body, header, destType) ==
    [idleCall EXCEPT !.pc = admissionStep(c),
                     !.kind = kind, !.method = method, !.url = url,
                     !.body = body, !.header = setHeaders(c, header),
                     !.withContext = FALSE,
                     !.destType = destType, !.dest = Zero(destType)]

\* doReq from its entry to the point where it first blocks: the headers are
\* set, and the goroutine either waits in c.limiter.Take() or, with a nil
\* limiter, goes on to c.client.Do.
doReqEnter(c, kind, method, url, body, header, destType) ==
    [idleCall EXCEPT !.pc = admissionStep(c),
                     !.kind = kind, !.method = method, !.url = url,
                     !.body = body, !.header = setHeaders(c, header),
                     !.withContext = TRUE,
                     !.destType = destType, !.dest = Zero(destType)]

\* the ctx argument of get, post and listGet
callWith(ctx, c) ==
    [c EXCEPT !.ctx = ctx, !.ctxAt = IF ctx # Background THEN "before" ELSE ""]

\* reqWithContext.Context().Err(): what the transport sees of the caller's
\* context
requestContext(c) == IF c.withContext THEN c.ctx ELSE Background

\* The transport honours the context of the request: once it is done the
\* request is not sent or, if in flight, is aborted, and Do returns the
\* context's error.
transportAborts(c) == requestContext(c) # ErrNil

\* Take returns as soon as the caller's context is done
takeReturns_onContextDone(c, admitted) == admitted \/ c.ctx # Background

\* c.limiter.Take() has no context parameter: it returns when the limiter
\* admits the caller, and not before
takeReturns(c, admitted) == admitted

\* an invocation that returns err before doReq is reached
failedEarly(kind, errType, destType) ==
    [idleCall EXCEPT !.pc = "done", !.kind = kind, !.destType = destType,
                     !.err = [type |-> errType, api |-> GoNil],
                     !.dest = Zero(destType), !.ret = Zero(destType)]

\* the relative URL is not checked: whatever it is, it is joined to the base
\* and the request goes to doReq
getEnter_unresolved(c, kind, relativeURL, destType) ==
    [doReqEnter(c, kind, "GET", absoluteURL(c, relativeURL), GoNil,
                emptyHeader, destType)
        EXCEPT !.relativeURL = relativeURL]

\* get: resolve the URL, build the request, enter doReq
getEnter(c, kind, relativeURL, destType) ==
    IF ~urlParseOK(relativeURL)
    THEN [failedEarly(kind, ErrURLParse, destType)
            EXCEPT !.relativeURL = relativeURL]
    ELSE [doReqEnter(c, kind, "GET", absoluteURL(c, relativeURL), GoNil,
                     emptyHeader, destType)
            EXCEPT !.relativeURL = relativeURL]

\* the request value is put on the wire as it is held in memory
postEnter_sendsUnmarshalled(c, relativeURL, reqBody, destType) ==
    IF ~urlParseOK(relativeURL)
    THEN [failedEarly("post", ErrURLParse, destType)
            EXCEPT !.relativeURL = relativeURL, !.reqBody = reqBody]
    ELSE IF reqBody # NilIface /\ ~marshalOK(reqBody)
    THEN [failedEarly("post", "json.UnsupportedTypeError", destType)
            EXCEPT !.relativeURL = relativeURL, !.reqBody = reqBody]
    ELSE [doReqEnter(c, "post", "POST", absoluteURL(c, relativeURL),
                     reqBody.v,
                     [emptyHeader EXCEPT !.ContentType = Ref("application/json")],
                     destType)
            EXCEPT !.relativeURL = relativeURL, !.reqBody = reqBody]

\* Content-Type is set only when a body is attached
postEnter_contentTypeWithBody(c, relativeURL, reqBody, destType) ==
    IF ~urlParseOK(relativeURL)
    THEN [failedEarly("post", ErrURLParse, destType)
            EXCEPT !.relativeURL = relativeURL, !.reqBody = reqBody]
    ELSE IF reqBody # NilIface /\ ~marshalOK(reqBody)
    THEN [failedEarly("post", "json.UnsupportedTypeError", destType)
            EXCEPT !.relativeURL = relativeURL, !.reqBody = reqBody]
    ELSE [doReqEnter(c, "post", "POST", absoluteURL(c, relativeURL),
                     IF reqBody # NilIface THEN Marshal(reqBody.v, reqBody.ty)
                     ELSE GoNil,
                     IF reqBody # NilIface
                     THEN [emptyHeader EXCEPT !.ContentType = Ref("application/json")]
                     ELSE emptyHeader,
                     destType)
            EXCEPT !.relativeURL = relativeURL, !.reqBody = reqBody]

\* post: resolve the URL, marshal the body if there is one, build the request,
\* set Content-Type, enter doReq
postEnter(c, relativeURL, reqBody, destType) ==
    IF ~urlParseOK(relativeURL)
    THEN [failedEarly("post", ErrURLParse, destType)
            EXCEPT !.relativeURL = relativeURL, !.reqBody = reqBody]
    ELSE IF reqBody # NilIface /\ ~marshalOK(reqBody)
    THEN [failedEarly("post", "json.UnsupportedTypeError", destType)
            EXCEPT !.relativeURL = relativeURL, !.reqBody = reqBody]
    ELSE [doReqEnter(c, "post", "POST", absoluteURL(c, relativeURL),
                     IF reqBody # NilIface THEN Marshal(reqBody.v, reqBody.ty)
                     ELSE GoNil,
                     [emptyHeader EXCEPT !.ContentType = Ref("application/json")],
                     destType)
            EXCEPT !.relativeURL = relativeURL, !.reqBody = reqBody]

\* the status is not looked at: every body is decoded into respBody
doReqResult_ignoresStatus(status, body, destType, old) ==
    LET d == Decode(body, destType, old)
    IN  [err |-> [type |-> d.err, api |-> GoNil], dest |-> d.val]

\* a status other than 200 yields an *Error built from the status alone
doReqResult_dropsErrorBody(status, body, destType, old) ==
    IF status # StatusOK
    THEN [err |-> [type |-> "*Error",
                   api |-> JObj([Zero("Error").o[1] EXCEPT !.status = JNum(status)])],
          dest |-> old]
    ELSE LET d == Decode(body, destType, old)
         IN  [err |-> [type |-> d.err, api |-> GoNil], dest |-> d.val]

\* the error of decoding a 200 body is dropped
doReqResult_swallowsDecodeError(status, body, destType, old) ==
    IF status # StatusOK
    THEN LET d == Decode(body, "Error", Zero("Error"))
         IN  IF d.err # JSONOk
             THEN [err |-> [type |-> d.err, api |-> GoNil], dest |-> old]
             ELSE [err |-> [type |-> "*Error", api |-> d.val], dest |-> old]
    ELSE [err |-> NoError, dest |-> Decode(body, destType, old).val]

\* doReq after c.client.Do returned a response: a status other than 200 is
\* decoded as *Error and returned as the error; a 200 is decoded into respBody.
doReqResult(status, body, destType, old) ==
    IF status # StatusOK
    THEN LET d == Decode(body, "Error", Zero("Error"))
         IN  IF d.err # JSONOk
             THEN [err |-> [type |-> d.err, api |-> GoNil], dest |-> old]
             ELSE [err |-> [type |-> "*Error", api |-> d.val], dest |-> old]
    ELSE LET d == Decode(body, destType, old)
         IN  [err |-> [type |-> d.err, api |-> GoNil], dest |-> d.val]

\* the envelope itself, not its data member, is unmarshalled into v
listGetResult_decodesEnvelope(status, body, destType, old) ==
    LET r == doReqResult(status, body, "listResponse", Zero("listResponse"))
    IN  IF r.err.type # ErrNil
        THEN [err |-> r.err, dest |-> old]
        ELSE LET u == Unmarshal(body, destType, old)
             IN  [err |-> [type |-> u.err, api |-> GoNil], dest |-> u.val]

\* listGet: get into a fresh listResponse, then json.Unmarshal(response.Data, v)
listGetResult(status, body, destType, old) ==
    LET r == doReqResult(status, body, "listResponse", Zero("listResponse"))
    IN  IF r.err.type # ErrNil
        THEN [err |-> r.err, dest |-> old]
        ELSE LET u == Unmarshal(r.dest.o[1].data, destType, old)
             IN  [err |-> [type |-> u.err, api |-> GoNil], dest |-> u.val]

\* get and post strip the list envelope as listGet does
callResult_alwaysStripsEnvelope(kind, status, body, destType, old) ==
    listGetResult(status, body, destType, old)

\* what the invocation of kind `kind` returns for a response
callResult(kind, status, body, destType, old) ==
    IF kind = "listGet"
    THEN listGetResult(status, body, destType, old)
    ELSE doReqResult(status, body, destType, old)

\* the transport's error is wrapped before it is returned
transportResult_wrapped(e, old) ==
    [err |-> [type |-> "scryfall: " \o e, api |-> GoNil], dest |-> old]

\* if err != nil { return err } after c.client.Do: nothing is decoded
transportResult(e, old) ==
    [err |-> [type |-> e, api |-> GoNil], dest |-> old]

\* the accessor returns what was decoded even when the call failed
accessorReturn_keepsDestination(destType, r) == r.dest

\* getCard, ListCardSymbols, GetCardsByIdentifiers and the other accessors:
\* if err != nil { return Card{}, err }; return card, nil
accessorReturn(destType, r) ==
    IF r.err.type # ErrNil THEN Zero(destType) ELSE r.dest

\* a failed request is sent once more before the failure is returned
finishCall_retriesOnce(c, resp, r) ==
    IF r.err.type # ErrNil /\ c.trips < 2
    THEN [c EXCEPT !.pc = "do"]
    ELSE [c EXCEPT !.pc = "done", !.resp = resp, !.err = r.err, !.dest = r.dest,
                   !.ret = accessorReturn(c.destType, r)]

\* a page that announces another one is followed by a request for it
finishCall_followsNextPage(c, resp, r) ==
    IF /\ c.kind = "listGet" /\ c.trips < 2 /\ resp # <<>>
       /\ resp[1].body.t = "object"
       /\ resp[1].body.o[1].has_more = JBool(TRUE)
    THEN [c EXCEPT !.pc = "do"]
    ELSE [c EXCEPT !.pc = "done", !.resp = resp, !.err = r.err, !.dest = r.dest,
                   !.ret = accessorReturn(c.destType, r)]

\* a call that fails hands its admission back
finishCall_refundsOnError(c, resp, r) ==
    [c EXCEPT !.pc = "done", !.resp = resp, !.err = r.err, !.dest = r.dest,
              !.ret = accessorReturn(c.destType, r),
              !.took = IF r.err.type # ErrNil THEN 0 ELSE @]

\* every return of doReq after c.client.Do ends the invocation, and the
\* accessor that made it returns to its caller
finishCall(c, resp, r) ==
    [c EXCEPT !.pc = "done", !.resp = resp, !.err = r.err, !.dest = r.dest,
              !.ret = accessorReturn(c.destType, r)]

----------------------------------------------------------------------------
(* Date and Timestamp.  A time.Time is the wall clock reading y-mo-d, the  *)
(* second of the day sod and the nanosecond ns, in a location off seconds  *)
(* east of UTC.  Wire text is a sequence of tokens, runs of decimal digits *)
(* and other text, with or without the enclosing quotes.                   *)

dateFormat == "2006-01-02"
timestampFormat == "2006-01-02T15:04:05.999Z07:00"
RFC3339Nano == "2006-01-02T15:04:05.999999999Z07:00"

Time(y, mo, d, sod, ns, off) ==
    [y |-> y, mo |-> mo, d |-> d, sod |-> sod, ns |-> ns, off |-> off]
\* time.Time{}: January 1, year 1, 00:00:00 UTC
zeroTime == Time(1, 1, 1, 0, 0, 0)
\* time.FixedZone("UTC-8", -8*60*60)
dateLocation == -8 * 60 * 60
secondsPerDay == 24 * 60 * 60

isLeap(y) == (y % 4 = 0 /\ y % 100 # 0) \/ y % 400 = 0
daysIn(y, mo) ==
    CASE mo = 2 -> IF isLeap(y) THEN 29 ELSE 28
      [] mo \in {4, 6, 9, 11} -> 30
      [] OTHER -> 31
daysBefore(y, mo) ==
    <<0, 31, 59, 90, 120, 151, 181, 212, 243, 273, 304, 334>>[mo]
        + (IF mo > 2 /\ isLeap(y) THEN 1 ELSE 0)
\* days from January 1 of year 1 to y-mo-d
daysSinceEpoch(y, mo, d) ==
    365 * (y - 1) + ((y - 1) \div 4) - ((y - 1) \div 100) + ((y - 1) \div 400)
        + daysBefore(y, mo) + (d - 1)

\* the instant of t: its day and second of the day in UTC, and its nanosecond
instant(t) ==
    LET total == t.sod - t.off + 2 * secondsPerDay
    IN  [day |-> daysSinceEpoch(t.y, t.mo, t.d) + (total \div secondsPerDay) - 2,
         sod |-> total % secondsPerDay,
         ns |-> t.ns]
\* time.Time.Equal: the same instant, whatever the locations
Equal(t, u) == instant(t) = instant(u)
IsZero(t) == Equal(t, zeroTime)

num(ds) == [k |-> "digits", ds |-> ds, s |-> ""]
text(str) == [k |-> "text", ds |-> <<>>, s |-> str]
Wire(quoted, parts) == [quoted |-> quoted, parts |-> parts]
noWire == Wire(FALSE, <<>>)

\* the decimal digits of n, and their value
RECURSIVE digitsOf(_)
digitsOf(n) == IF n < 10 THEN <<n>> ELSE Append(digitsOf(n \div 10), n % 10)
RECURSIVE atoi(_)
atoi(ds) ==
    IF ds = <<>> THEN 0 ELSE 10 * atoi(SubSeq(ds, 1, Len(ds) - 1)) + ds[Len(ds)]
RECURSIVE zeroPad(_, _)
zeroPad(ds, w) == IF Len(ds) >= w THEN ds ELSE zeroPad(<<0>> \o ds, w)
RECURSIVE trimZeros(_)
trimZeros(ds) ==
    IF ds # <<>> /\ ds[Len(ds)] = 0 THEN trimZeros(SubSeq(ds, 1, Len(ds) - 1)) ELSE ds
RECURSIVE pow10(_)
pow10(k) == IF k = 0 THEN 1 ELSE 10 * pow10(k - 1)

\* t.Format(layout): the year takes at least four digits, month, day, hour,
\* minute and second two; the fraction of RFC3339Nano drops trailing zeros
\* and the zone is Z at offset zero
timeFormat(t, layout) ==
    LET date == <<num(zeroPad(digitsOf(t.y), 4)), text("-"),
                  num(zeroPad(digitsOf(t.mo), 2)), text("-"),
                  num(zeroPad(digitsOf(t.d), 2))>>
        clock == <<text("T"), num(zeroPad(digitsOf(t.sod \div 3600), 2)), text(":"),
                   num(zeroPad(digitsOf((t.sod % 3600) \div 60), 2)), text(":"),
                   num(zeroPad(digitsOf(t.sod % 60), 2))>>
        frac == IF t.ns = 0 THEN <<>>
                ELSE <<text("."), num(trimZeros(zeroPad(digitsOf(t.ns), 9)))>>
        abs == IF t.off < 0 THEN 0 - t.off ELSE t.off
        zone == IF t.off = 0 THEN <<text("Z")>>
                ELSE <<text(IF t.off < 0 THEN "-" ELSE "+"),
                       num(zeroPad(digitsOf(abs \div 3600), 2)), text(":"),
                       num(zeroPad(digitsOf((abs % 3600) \div 60), 2))>>
    IN  IF layout = dateFormat THEN date ELSE date \o clock \o frac \o zone

ParseOk == "nil"
ParseError == "time.ParseError"

isNum(tok, w) == tok.k = "digits" /\ Len(tok.ds) = w

\* the "2006-01-02" prefix of both layouts: four, two and two digits, a month
\* of the year and a day of that month
parseDate(s) ==
    IF /\ Len(s) >= 5
       /\ isNum(s[1], 4) /\ s[2] = text("-")
       /\ isNum(s[3], 2) /\ s[4] = text("-")
       /\ isNum(s[5], 2)
       /\ atoi(s[3].ds) \in 1..12
       /\ atoi(s[5].ds) \in 1..daysIn(atoi(s[1].ds), atoi(s[3].ds))
    THEN [err |-> ParseOk,
          t |-> Time(atoi(s[1].ds), atoi(s[3].ds), atoi(s[5].ds), 0, 0, 0)]
    ELSE [err |-> ParseError, t |-> zeroTime]

\* time.Parse(layout, s) and time.ParseInLocation(layout, s, loc): a text
\* without a zone is read in loc, one with a zone at the offset it names
timeParse(layout, s, loc) ==
    LET p == parseDate(s)
        failed == [err |-> ParseError, t |-> zeroTime]
    IN  IF p.err # ParseOk THEN failed
        ELSE IF layout = dateFormat
        THEN IF Len(s) # 5 THEN failed
             ELSE [err |-> ParseOk, t |-> [p.t EXCEPT !.off = loc]]
        ELSE IF ~(/\ Len(s) >= 12
                  /\ s[6] = text("T") /\ isNum(s[7], 2) /\ s[8] = text(":")
                  /\ isNum(s[9], 2) /\ s[10] = text(":") /\ isNum(s[11], 2)
                  /\ atoi(s[7].ds) < 24 /\ atoi(s[9].ds) < 60 /\ atoi(s[11].ds) < 60)
        THEN failed
        ELSE LET rest == SubSeq(s, 12, Len(s))
                 hasFrac == /\ Len(rest) >= 2 /\ rest[1] = text(".")
                            /\ rest[2].k = "digits" /\ Len(rest[2].ds) \in 1..9
                 ns == IF hasFrac
                       THEN atoi(rest[2].ds) * pow10(9 - Len(rest[2].ds)) ELSE 0
                 zone == IF hasFrac THEN SubSeq(rest, 3, Len(rest)) ELSE rest
                 sod == 3600 * atoi(s[7].ds) + 60 * atoi(s[9].ds) + atoi(s[11].ds)
             IN  IF zone = <<text("Z")>>
                 THEN [err |-> ParseOk, t |-> [p.t EXCEPT !.sod = sod, !.ns = ns]]
                 ELSE IF /\ Len(zone) = 4 /\ zone[1] \in {text("+"), text("-")}
                         /\ isNum(zone[2], 2) /\ zone[3] = text(":") /\ isNum(zone[4], 2)
                         /\ atoi(zone[4].ds) < 60
                 THEN LET east == 3600 * atoi(zone[2].ds) + 60 * atoi(zone[4].ds)
                      IN  [err |-> ParseOk,
                           t |-> [p.t EXCEPT !.sod = sod, !.ns = ns,
                                   !.off = IF zone[1] = text("-") THEN 0 - east ELSE east]]
                 ELSE failed

\* strings.Trim(string(b), "\""): the text without its enclosing quotes
trimQuotes(b) == b.parts

\* the date is read in the zone of the machine
dateUnmarshalJSONResult_parsesInLocal(old, b, loc) ==
    LET s == trimQuotes(b)
        p == timeParse(dateFormat, s, loc)
    IN  IF s = <<text("null")>> THEN [err |-> ParseOk, recv |-> old]
        ELSE IF p.err # ParseOk THEN [err |-> p.err, recv |-> old]
        ELSE [err |-> ParseOk, recv |-> p.t]

\* null resets the receiver to the zero time
dateUnmarshalJSONResult_nullResets(old, b, loc) ==
    LET s == trimQuotes(b)
        p == timeParse(dateFormat, s, dateLocation)
    IN  IF s = <<text("null")>> THEN [err |-> ParseOk, recv |-> zeroTime]
        ELSE IF p.err # ParseOk THEN [err |-> p.err, recv |-> old]
        ELSE [err |-> ParseOk, recv |-> p.t]

\* (*Date).UnmarshalJSON(b) on a receiver holding old, on a machine whose
\* time.Local is loc: null returns at once, anything else is parsed as a date
\* in the fixed zone UTC-8 and stored only when the parse succeeded
dateUnmarshalJSONResult(old, b, loc) ==
    LET s == trimQuotes(b)
        p == timeParse(dateFormat, s, dateLocation)
    IN  IF s = <<text("null")>> THEN [err |-> ParseOk, recv |-> old]
        ELSE IF p.err # ParseOk THEN [err |-> p.err, recv |-> old]
        ELSE [err |-> ParseOk, recv |-> p.t]

\* (*Date).MarshalJSON(): fmt.Sprintf("\"%s\"", d.Format(dateFormat)), nil
dateMarshalJSON(t) ==
    [err |-> ParseOk, wire |-> Wire(TRUE, timeFormat(t, dateFormat))]

\* null stores the zero time in the receiver
timestampUnmarshalJSONResult_nullResets(old, b) ==
    LET s == trimQuotes(b)
        p == timeParse(timestampFormat, s, 0)
    IN  IF s = <<text("null")>> THEN [err |-> ParseOk, recv |-> zeroTime]
        ELSE IF p.err # ParseOk THEN [err |-> p.err, recv |-> old]
        ELSE [err |-> ParseOk, recv |-> p.t]

\* (*Timestamp).UnmarshalJSON(b) on a receiver holding old
timestampUnmarshalJSONResult(old, b) ==
    LET s == trimQuotes(b)
        p == timeParse(timestampFormat, s, 0)
    IN  IF s = <<text("null")>> THEN [err |-> ParseOk, recv |-> old]
        ELSE IF p.err # ParseOk THEN [err |-> p.err, recv |-> old]
        ELSE [err |-> ParseOk, recv |-> p.t]

\* Timestamp has no MarshalJSON of its own: the one of the embedded time.Time
\* is used, which refuses a year outside 0..9999 and writes RFC3339Nano
timestampMarshalJSON(t) ==
    IF t.y \notin 0..9999
    THEN [err |-> "Time.MarshalJSON: year outside of range [0,9999]", wire |-> noWire]
    ELSE [err |-> ParseOk, wire |-> Wire(TRUE, timeFormat(t, RFC3339Nano))]

\* trail is the run of codec calls each fed by the one before it: U an
\* UnmarshalJSON, M a MarshalJSON; from and fromFresh are the bytes and the
\* receiver the run started from, prev the receiver before the last
\* UnmarshalJSON, src the value the last MarshalJSON encoded
noCodec ==
    [type |-> "", recv |-> zeroTime, prev |-> zeroTime, wire |-> noWire,
     src |-> zeroTime, from |-> noWire, fromFresh |-> FALSE,
     err |-> ParseOk, trail |-> ""]

\* the second client before its NewClient call: its options, what NewClient
\* returned, and the state of the limiter it holds
noSecond ==
    [constructed |-> FALSE, options |-> <<>>, client |-> Nil, newErr |-> ErrNil,
     recentAdmits |-> <<>>, admissions |-> 0]

\* every client is given one limiter, created when the package is loaded
limiterObject_packageLevel(n, opts) ==
    LET given == {i \in DOMAIN opts : opts[i].field = "limiter"}
        last == CHOOSE i \in given : \A j \in given : j <= i
    IN  IF given = {} THEN [by |-> "NewClient", n |-> 0, l |-> Nil]
        ELSE [by |-> "caller", n |-> 0, l |-> opts[last].ref]

\* The limiter object held by the client the n-th NewClient call builds from
\* opts: the one ratelimit.New creates inside that call, or the caller's own,
\* handed over by the last WithLimiter.
limiterObject(n, opts) ==
    LET given == {i \in DOMAIN opts : opts[i].field = "limiter"}
        last == CHOOSE i \in given : \A j \in given : j <= i
    IN  IF given = {} THEN [by |-> "NewClient", n |-> n, l |-> Nil]
        ELSE [by |-> "caller", n |-> 0, l |-> opts[last].ref]

----------------------------------------------------------------------------
(* Actions.                                                                *)

Init ==
    /\ options = <<>>
    /\ constructed = FALSE
    /\ client = Nil
    /\ newErr = ErrNil
    /\ call = [g \in 1..NumGoroutines |-> idleCall]
    /\ calls = 0
    /\ recentAdmits = <<>>
    /\ recentBegins = <<>>
    /\ admissions = 0
    /\ roundTrips = 0
    /\ codec = noCodec
    /\ local = 0
    /\ second = noSecond

NewClient(opts) ==
    /\ ~constructed
    /\ options' = opts
    /\ constructed' = TRUE
    /\ client' = NewClientResult(opts).c
    /\ newErr' = NewClientResult(opts).err
    /\ UNCHANGED <<codec, local, second, call, calls, recentAdmits, recentBegins, admissions, roundTrips>>

\* a second NewClient call, building a client of its own
NewClientSecond(opts) ==
    /\ ~second.constructed
    /\ second' = [noSecond EXCEPT !.constructed = TRUE, !.options = opts,
                                  !.client = NewClientResult(opts).c,
                                  !.newErr = NewClientResult(opts).err]
    /\ UNCHANGED <<codec, local, options, constructed, client, newErr, call,
                   calls, recentAdmits, recentBegins, admissions, roundTrips>>

\* a goroutine may start an invocation on a constructed client
CanStart(g) ==
    /\ client # Nil
    /\ call[g].pc \in {"idle", "done"}
    /\ calls < MaxCalls

\* the resolved URL is stored back into c.baseURL
Start_rewritesBaseURL(g, c) ==
    /\ call' = [call EXCEPT ![g] = c]
    /\ calls' = calls + 1
    /\ client' = IF c.url # "" THEN Ref([client[1] EXCEPT !.baseURL = c.url])
                 ELSE client
    /\ UNCHANGED <<codec, local, second, options, constructed, newErr,
                   recentAdmits, recentBegins, admissions, roundTrips>>

Start(g, c) ==
    /\ call' = [call EXCEPT ![g] = c]
    /\ calls' = calls + 1
    /\ UNCHANGED <<codec, local, second, options, constructed, client, newErr,
                   recentAdmits, recentBegins, admissions, roundTrips>>

get(g, ctx, relativeURL, destType) ==
    /\ CanStart(g)
    /\ Start(g, callWith(ctx, getEnter(client[1], "get", relativeURL, destType)))

post(g, ctx, relativeURL, reqBody, destType) ==
    /\ CanStart(g)
    /\ Start(g, callWith(ctx, postEnter(client[1], relativeURL, reqBody, destType)))

listGet(g, ctx, relativeURL, destType) ==
    /\ CanStart(g)
    /\ Start(g, callWith(ctx, getEnter(client[1], "listGet", relativeURL, destType)))

\* get on the second client
getSecond(g, ctx, relativeURL, destType) ==
    /\ second.client # Nil
    /\ call[g].pc \in {"idle", "done"}
    /\ calls < MaxCalls
    /\ Start(g, [callWith(ctx, getEnter(second.client[1], "get", relativeURL,
                                        destType))
                    EXCEPT !.on = 2])

\* the caller cancels the context of its running invocation, or the
\* context's deadline passes
ctxDone(g, e) ==
    /\ call[g].pc \in {"take", "do", "inflight"}
    /\ call[g].ctx = Background
    /\ call' = [call EXCEPT ![g].ctx = e, ![g].ctxAt = call[g].pc]
    /\ UNCHANGED <<codec, local, second, options, constructed, client, newErr, calls,
                   recentAdmits, recentBegins, admissions, roundTrips>>

\* listGet takes an admission of its own on top of the one get takes
limiterTake_twiceForList(g) ==
    /\ call[g].pc = "take"
    /\ call[g].on = 1
    /\ takeReturns(call[g], LimiterAdmits(client[1].limiter, recentAdmits))
    /\ LET n == IF call[g].kind = "listGet" THEN 2 ELSE 1
       IN  /\ call' = [call EXCEPT ![g].pc = "do", ![g].took = @ + n]
           /\ recentAdmits' = Append(recentAdmits, 0)
           /\ admissions' = admissions + n
    /\ UNCHANGED <<codec, local, second, options, constructed, client, newErr, calls, recentBegins, roundTrips>>

\* c.limiter.Take() returns
limiterTake(g) ==
    /\ call[g].pc = "take"
    /\ call[g].on = 1
    /\ takeReturns(call[g], LimiterAdmits(client[1].limiter, recentAdmits))
    /\ call' = [call EXCEPT ![g].pc = "do", ![g].took = @ + 1]
    /\ recentAdmits' = Append(recentAdmits, 0)
    /\ admissions' = admissions + 1
    /\ UNCHANGED <<codec, local, second, options, constructed, client, newErr, calls, recentBegins, roundTrips>>

\* c.limiter.Take() returns on the second client: the admission is counted
\* by the limiter object that client holds
limiterTakeSecond(g) ==
    /\ call[g].pc = "take"
    /\ call[g].on = 2
    /\ LET shared == limiterObject(2, second.options) = limiterObject(1, options)
           recent == IF shared THEN recentAdmits ELSE second.recentAdmits
       IN  /\ takeReturns(call[g], LimiterAdmits(second.client[1].limiter, recent))
           /\ IF shared
              THEN /\ recentAdmits' = Append(recentAdmits, 0)
                   /\ admissions' = admissions + 1
                   /\ UNCHANGED second
              ELSE /\ second' = [second EXCEPT !.recentAdmits = Append(@, 0),
                                               !.admissions = @ + 1]
                   /\ UNCHANGED <<recentAdmits, admissions>>
    /\ call' = [call EXCEPT ![g].pc = "do", ![g].took = @ + 1]
    /\ UNCHANGED <<codec, local, options, constructed, client, newErr, calls,
                   recentBegins, roundTrips>>

\* c.client.Do(reqWithContext) sends the request, or with a context that is
\* already done returns its error without sending anything
clientDo(g) ==
    /\ call[g].pc = "do"
    /\ IF transportAborts(call[g])
       THEN LET e == requestContext(call[g])
            IN  /\ call' = [call EXCEPT ![g] =
                              finishCall([call[g] EXCEPT !.doErr = e], Nil,
                                         transportResult(e, call[g].dest))]
                /\ UNCHANGED <<recentBegins, roundTrips>>
       ELSE /\ call' = [call EXCEPT ![g].pc = "inflight", ![g].trips = @ + 1]
            /\ recentBegins' = Append(recentBegins, 0)
            /\ roundTrips' = roundTrips + 1
    /\ UNCHANGED <<codec, local, second, options, constructed, client, newErr, calls, recentAdmits, admissions>>

\* c.client.Do returns err: doReq returns it
doReqTransportError(g, e) ==
    /\ call[g].pc = "inflight"
    /\ transportAborts(call[g]) => e = requestContext(call[g])
    /\ call' = [call EXCEPT ![g] = finishCall([call[g] EXCEPT !.doErr = e], Nil,
                                               transportResult(e, call[g].dest))]
    /\ UNCHANGED <<codec, local, second, options, constructed, client, newErr, calls,
                   recentAdmits, recentBegins, admissions, roundTrips>>

\* c.client.Do returns a response: the rest of doReq, and of listGet
doReqResponse(g, resp) ==
    /\ call[g].pc = "inflight"
    /\ ~transportAborts(call[g])
    /\ LET r == callResult(call[g].kind, resp.status, resp.body,
                           call[g].destType, call[g].dest)
       IN  call' = [call EXCEPT ![g] = finishCall(call[g], Ref(resp), r)]
    /\ UNCHANGED <<codec, local, second, options, constructed, client, newErr, calls,
                   recentAdmits, recentBegins, admissions, roundTrips>>

\* one clock tick: admissions and call starts older than a second are forgotten
Aged(ages) == SelectSeq([i \in DOMAIN ages |-> ages[i] + 1], LAMBDA a : a < Window)

Tick ==
    /\ constructed
    /\ recentAdmits' = Aged(recentAdmits)
    /\ recentBegins' = Aged(recentBegins)
    /\ second' = [second EXCEPT !.recentAdmits = Aged(@)]
    /\ UNCHANGED <<codec, local, options, constructed, client, newErr, call, calls,
                   admissions, roundTrips>>

\* an UnmarshalJSON call returned r for the bytes b and a receiver holding old
unmarshalled(r, old, b, fresh) ==
    LET fed == codec.trail \in {"M", "UM"} /\ codec.err = ParseOk /\ b = codec.wire
    IN  /\ codec' = [codec EXCEPT !.recv = r.recv, !.prev = old, !.wire = b,
                                  !.err = r.err,
                                  !.trail = IF fed THEN @ \o "U" ELSE "U",
                                  !.from = IF fed THEN @ ELSE b,
                                  !.fromFresh = IF fed THEN @ ELSE fresh,
                                  !.src = IF fed THEN @ ELSE zeroTime]
        /\ UNCHANGED <<options, constructed, client, newErr, call, calls,
                       recentAdmits, recentBegins, admissions, roundTrips, local, second>>

\* a MarshalJSON call returned m
marshalled(m) ==
    LET decoded == codec.trail = "U" /\ codec.err = ParseOk
    IN  /\ codec' = [codec EXCEPT !.wire = IF m.err = ParseOk THEN m.wire ELSE @,
                                  !.err = m.err, !.src = codec.recv,
                                  !.prev = codec.recv,
                                  !.trail = IF decoded THEN "UM" ELSE "M",
                                  !.from = IF decoded THEN @ ELSE noWire,
                                  !.fromFresh = IF decoded THEN @ ELSE FALSE]
        /\ UNCHANGED <<options, constructed, client, newErr, call, calls,
                       recentAdmits, recentBegins, admissions, roundTrips, local, second>>

\* d.UnmarshalJSON(b), d a fresh Date{} or the receiver of the call before
DateUnmarshalJSON(b, fresh) ==
    /\ codec.type = "Date"
    /\ LET old == IF fresh THEN zeroTime ELSE codec.recv
       IN  unmarshalled(dateUnmarshalJSONResult(old, b, local), old, b, fresh)

DateMarshalJSON ==
    /\ codec.type = "Date"
    /\ marshalled(dateMarshalJSON(codec.recv))

\* t.UnmarshalJSON(b), t a fresh Timestamp{} or the receiver of the call before
TimestampUnmarshalJSON(b, fresh) ==
    /\ codec.type = "Timestamp"
    /\ LET old == IF fresh THEN zeroTime ELSE codec.recv
       IN  unmarshalled(timestampUnmarshalJSONResult(old, b), old, b, fresh)

TimestampMarshalJSON ==
    /\ codec.type = "Timestamp"
    /\ marshalled(timestampMarshalJSON(codec.recv))

----------------------------------------------------------------------------
(* Inputs: option sequences, request arguments and server responses.       *)

SeqsUpTo(S, n) == UNION {[1..k -> S] : k \in 0..n}

\* the options of the tests (scryfall_test.go) and their edge values
AllOptions ==
    {WithBaseURL(":bad"),
     WithUserAgent("custom/1.2.3"),
     WithClientSecret("cs-12345"),
     WithGrantSecret("12345"), WithGrantSecret(""),
     WithLimiter(Nil), WithLimiter(ratelimitNew(1))}

AllOptionSeqs == SeqsUpTo(AllOptions, MaxOpts)

\* the clients the request pipeline is explored with
PipelineOptionSeqs ==
    {<<>>,
     <<WithBaseURL(TestServerURL), WithLimiter(Nil)>>,
     <<WithHTTPClient(httpClient(5)), WithGrantSecret("12345")>>,
     <<WithClientSecret("cs-12345"), WithGrantSecret("12345")>>}

\* the clients the rate limiter is explored with
RateOptionSeqs ==
    {<<>>, <<WithLimiter(Nil)>>, <<WithLimiter(ratelimitNew(1))>>}

\* {"object":"error","code":"not_found","status":404,"details":"..."}
BodyNotFound ==
    Obj([object |-> JStr("error"), code |-> JStr("not_found"),
         status |-> JNum(StatusNotFound),
         details |-> JStr("The requested object or REST method was not found.")])
\* an error envelope with every member
BodyBadRequest ==
    Obj([object |-> JStr("error"), code |-> JStr("bad_request"), status |-> JNum(400),
         details |-> JStr(""), type |-> JStr("ambiguous"),
         warnings |-> JArr(<<JStr("w1"), JStr("w2")>>)])
\* an error envelope with explicit nulls
BodyErrorNulls ==
    Obj([code |-> JStr("forbidden"), status |-> JNum(403),
         type |-> JNull, warnings |-> JNull])
\* {"status":"404","code":"not_found"}: status is not a number
BodyErrorMistyped ==
    Obj([status |-> JStr("404"), code |-> JStr("not_found")])
BodyCard ==
    Obj([object |-> JStr("card"), id |-> JStr("c1"), name |-> JStr("Storm Crow"),
         mtgo_id |-> JNum(12)])
\* a card whose id is a number
BodyCardMistyped ==
    Obj([object |-> JStr("card"), id |-> JNum(7), name |-> JStr("Storm Crow")])
SymbolT == Obj([object |-> JStr("card_symbol"), symbol |-> JStr("{T}"),
                transposable |-> JBool(FALSE)])
SymbolQ == Obj([object |-> JStr("card_symbol"), symbol |-> JStr("{Q}"),
                transposable |-> JBool(TRUE)])
\* {"object":"list","has_more":false,"data":[...]}
BodyList ==
    Obj([object |-> JStr("list"), has_more |-> JBool(FALSE),
         data |-> JArr(<<SymbolT, SymbolQ>>)])
\* a list envelope with every member set
BodyListMore ==
    Obj([object |-> JStr("list"), has_more |-> JBool(TRUE),
         next_page |-> JStr("https://api.scryfall.com/symbology?page=2"),
         total_cards |-> JNum(3), warnings |-> JArr(<<JStr("w1")>>),
         data |-> JArr(<<SymbolQ, SymbolT, SymbolQ>>)])
BodyListEmpty ==
    Obj([object |-> JStr("list"), has_more |-> JBool(FALSE), data |-> JArr(<<>>)])
\* a list envelope without data, and ones whose data is no array of symbols
BodyListNoData == Obj([object |-> JStr("list"), has_more |-> JBool(FALSE)])
BodyListBadData == Obj([object |-> JStr("list"), data |-> JStr("oops")])
BodyListBadItem ==
    Obj([object |-> JStr("list"), data |-> JArr(<<SymbolT, Obj([symbol |-> JNum(1)])>>)])
BodyArray == JArr(<<>>)

AllBodies ==
    {BodyNotFound, BodyBadRequest, BodyErrorNulls, BodyErrorMistyped, BodyCard,
     BodyCardMistyped, BodyList, BodyListMore, BodyListEmpty, BodyListNoData,
     BodyListBadData, BodyListBadItem, BodyArray, JNull, BodyEmpty, BodyMalformed}

Statuses == {StatusOK, StatusNotFound, 400}

AllResponses == [status : Statuses, body : AllBodies]

BasicResponses ==
    {[status |-> StatusOK, body |-> BodyList],
     [status |-> StatusNotFound, body |-> BodyNotFound]}

\* {"object":"list","has_more":true,"next_page":...,"data":[cards]}
BodyCardList ==
    Obj([object |-> JStr("list"), has_more |-> JBool(TRUE),
         next_page |-> JStr("https://api.scryfall.com/cards/search?page=2"),
         total_cards |-> JNum(3), warnings |-> JArr(<<JStr("w1")>>),
         data |-> JArr(<<BodyCard,
                         Obj([object |-> JStr("card"), id |-> JStr("c2"),
                              name |-> JStr("Ornithopter")])>>)])
\* the last page: next_page is null, there are no warnings
BodyCardListLast ==
    Obj([object |-> JStr("list"), has_more |-> JBool(FALSE), next_page |-> JNull,
         total_cards |-> JNum(1), data |-> JArr(<<BodyCard>>)])

EnvelopeResponses ==
    {[status |-> StatusOK, body |-> BodyCardList],
     [status |-> StatusOK, body |-> BodyCardListLast],
     [status |-> StatusOK, body |-> BodyListNoData],
     [status |-> StatusOK, body |-> BodyListEmpty],
     [status |-> StatusOK, body |-> BodyListBadData],
     [status |-> StatusOK, body |-> BodyCard],
     [status |-> StatusNotFound, body |-> BodyNotFound]}

\* bodies that are and are not an error envelope, under both kinds of status:
\* no JSON at all, no bytes at all, a mistyped status member
ErrorResponses ==
    [status : {StatusOK, StatusNotFound},
     body : {BodyMalformed, BodyEmpty, BodyErrorMistyped, BodyNotFound, BodyCard}]

TransportErrors ==
    {"net/http: timeout", "context canceled", "dial tcp: connection refused"}

\* CardIdentifier{...}: the fields not named hold their zero value
CardIdentifier(r) ==
    JObj([f \in DOMAIN StructFields("CardIdentifier") |->
            IF f \in DOMAIN r THEN r[f] ELSE Zero("CardIdentifier").o[1][f]])

\* &GetCardsByIdentifiersRequest{Identifiers: identifiers}, the value
\* GetCardsByIdentifiers posts
Identifiers ==
    Iface("GetCardsByIdentifiersRequest",
          JObj([identifiers |->
                  JArr(<<CardIdentifier([name |-> JStr("Storm Crow")]),
                         CardIdentifier([id |-> JStr("c1"), mtgo_id |-> JNum(12)]),
                         CardIdentifier([name |-> JStr("Ornithopter"),
                                         set |-> JStr("aer"), mtgo_id |-> JNum(0)])>>)]))
\* GetCardsByIdentifiers(ctx, nil): the identifiers are a nil slice
NoIdentifiers ==
    Iface("GetCardsByIdentifiersRequest", JObj([identifiers |-> GoNil]))

RelativeURLs == {"cards/nope", ":bad"}
RequestBodies == {NilIface, Identifiers, NoIdentifiers, Unmarshalable}

\* the text of a date and of a timestamp, digit by digit
DateText(y, mo, d) == <<num(y), text("-"), num(mo), text("-"), num(d)>>
ClockText(h, mi, sec) ==
    <<text("T"), num(h), text(":"), num(mi), text(":"), num(sec)>>
ZoneText(sign, h, mi) == <<text(sign), num(h), text(":"), num(mi)>>

\* well-formed dates, each with the day it names
DateFixtures ==
    {[parts |-> DateText(<<2,0,1,8>>, <<0,4>>, <<2,7>>), y |-> 2018, mo |-> 4, d |-> 27],
     [parts |-> DateText(<<2,0,2,0>>, <<0,2>>, <<2,9>>), y |-> 2020, mo |-> 2, d |-> 29],
     [parts |-> DateText(<<0,0,0,1>>, <<0,1>>, <<0,1>>), y |-> 1, mo |-> 1, d |-> 1],
     [parts |-> DateText(<<9,9,9,9>>, <<1,2>>, <<3,1>>), y |-> 9999, mo |-> 12, d |-> 31]}

\* texts that are no date: February 30, month 13, a one-digit month, a
\* five-digit year, a date cut short, a timestamp, words, nothing
NotDates ==
    {DateText(<<2,0,1,8>>, <<0,2>>, <<3,0>>),
     DateText(<<2,0,1,8>>, <<1,3>>, <<0,1>>),
     DateText(<<2,0,1,8>>, <<4>>, <<2,7>>),
     DateText(<<1,0,0,0,0>>, <<0,1>>, <<0,1>>),
     <<num(<<2,0,1,8>>), text("-"), num(<<0,4>>)>>,
     DateText(<<2,0,1,8>>, <<1,2>>, <<0,1>>) \o ClockText(<<1,4>>, <<3,1>>, <<4,3>>)
        \o ZoneText("-", <<0,5>>, <<0,0>>),
     <<text("April 27, 2018")>>,
     <<>>}

\* well-formed timestamps: those of TestTimestampUnmarshalJSON, and a Z zone
TimestampFixtures ==
    {[parts |-> DateText(<<2,0,1,8>>, <<1,2>>, <<0,1>>) \o ClockText(<<1,4>>, <<3,1>>, <<4,3>>)
                    \o ZoneText("-", <<0,5>>, <<0,0>>),
      t |-> Time(2018, 12, 1, 14 * 3600 + 31 * 60 + 43, 0, 0 - 5 * 3600)],
     [parts |-> DateText(<<2,0,1,8>>, <<1,2>>, <<3,1>>) \o ClockText(<<0,9>>, <<0,5>>, <<0,7>>)
                    \o <<text("."), num(<<9,4,9>>)>> \o ZoneText("+", <<0,0>>, <<0,0>>),
      t |-> Time(2018, 12, 31, 9 * 3600 + 5 * 60 + 7, 949000000, 0)],
     [parts |-> DateText(<<2,0,2,0>>, <<0,2>>, <<2,9>>) \o ClockText(<<2,3>>, <<5,9>>, <<5,9>>)
                    \o <<text("."), num(<<0,0,0,0,0,0,0,0,1>>)>> \o <<text("Z")>>,
      t |-> Time(2020, 2, 29, 23 * 3600 + 59 * 60 + 59, 1, 0)]}

\* texts that are no timestamp: a date alone, hour 24, no zone, words
NotTimestamps ==
    {DateText(<<2,0,1,8>>, <<0,4>>, <<2,7>>),
     DateText(<<2,0,1,8>>, <<1,2>>, <<0,1>>) \o ClockText(<<2,4>>, <<0,0>>, <<0,0>>)
        \o <<text("Z")>>,
     DateText(<<2,0,1,8>>, <<1,2>>, <<0,1>>) \o ClockText(<<1,4>>, <<3,1>>, <<4,3>>),
     <<text("yesterday")>>}

NullText == <<text("null")>>

\* the bytes handed to UnmarshalJSON: each text as a JSON string and bare
DateWires ==
    {Wire(q, s) : q \in BOOLEAN,
                  s \in {f.parts : f \in DateFixtures} \cup NotDates \cup {NullText}}
TimestampWires ==
    {Wire(q, s) : q \in BOOLEAN,
                  s \in {f.parts : f \in TimestampFixtures} \cup NotTimestamps
                            \cup {NullText}}

\* Date values a program can hold: the zero value, and days of several
\* years at midnight and late in the evening, in UTC-8, UTC and UTC+14
AllDates ==
    {zeroTime} \cup
    {Time(y, md[1], md[2], sod, 0, off) :
        y \in {1, 2018, 2020, 10000},
        md \in {<<1, 1>>, <<2, 28>>, <<4, 27>>, <<12, 31>>},
        sod \in {0, 23 * 3600 + 59 * 60 + 59},
        off \in {dateLocation, 0, 14 * 3600}}

\* Timestamp values a program can hold
AllTimestamps ==
    {zeroTime, Time(2018, 12, 1, 14 * 3600 + 31 * 60 + 43, 0, 0 - 5 * 3600),
     Time(10000, 1, 1, 0, 0, 0)}

\* time.Local of the machines the decoding runs on
LocalZones == {dateLocation, 0, 2 * 3600}

----------------------------------------------------------------------------
(* Specifications.                                                         *)

\* The request pipeline: one caller, every kind of response.
Next ==
    \/ \E opts \in PipelineOptionSeqs : NewClient(opts)
    \/ \E u \in RelativeURLs : get(1, Background, u, "Card")
    \/ \E u \in RelativeURLs, b \in RequestBodies : post(1, Background, u, b, "Card")
    \/ \E u \in RelativeURLs : listGet(1, Background, u, "[]CardSymbol")
    \/ limiterTake(1)
    \/ clientDo(1)
    \/ \E e \in TransportErrors : doReqTransportError(1, e)
    \/ \E resp \in AllResponses : doReqResponse(1, resp)
    \/ Tick

Spec == Init /\ [][Next]_vars

\* Construction: every option sequence, one caller, the responses of the tests.
NextNew ==
    \/ \E opts \in AllOptionSeqs : NewClient(opts)
    \/ get(1, Background, "cards/nope", "Card")
    \/ post(1, Background, "cards/collection", Identifiers, "Card")
    \/ listGet(1, Background, "symbology", "[]CardSymbol")
    \/ limiterTake(1)
    \/ clientDo(1)
    \/ \E resp \in BasicResponses : doReqResponse(1, resp)

SpecNew == Init /\ [][NextNew]_vars

\* The rate limiter: several goroutines sharing one client, and the clock.
NextRate ==
    \/ \E opts \in RateOptionSeqs : NewClient(opts)
    \/ \E g \in 1..NumGoroutines : get(g, Background, "cards/nope", "Card")
    \/ \E g \in 1..NumGoroutines : listGet(g, Background, "symbology", "[]CardSymbol")
    \/ \E g \in 1..NumGoroutines : limiterTake(g)
    \/ \E g \in 1..NumGoroutines : clientDo(g)
    \/ \E g \in 1..NumGoroutines : doReqTransportError(g, "net/http: timeout")
    \/ \E g \in 1..NumGoroutines, resp \in BasicResponses : doReqResponse(g, resp)
    \/ Tick

SpecRate == Init /\ [][NextRate]_vars

\* The list envelope: a destination shaped as the envelope and one shaped as
\* the item array, through get (SearchCards) and through listGet.
NextEnvelope ==
    \/ \E opts \in PipelineOptionSeqs : NewClient(opts)
    \/ get(1, Background, "cards/search", "CardListResponse")
    \/ \E destType \in {"CardListResponse", "[]Card"} :
            listGet(1, Background, "cards/search", destType)
    \/ limiterTake(1)
    \/ clientDo(1)
    \/ \E resp \in EnvelopeResponses : doReqResponse(1, resp)

SpecEnvelope == Init /\ [][NextEnvelope]_vars

\* Failures side by side: several callers on the client of setupTestServer,
\* each answered with any status and any body.
NextErr ==
    \/ NewClient(<<WithBaseURL(TestServerURL), WithLimiter(Nil)>>)
    \/ \E g \in 1..NumGoroutines : get(g, Background, "cards/nope", "Card")
    \/ \E g \in 1..NumGoroutines : clientDo(g)
    \/ \E g \in 1..NumGoroutines, resp \in ErrorResponses : doReqResponse(g, resp)

SpecErr == Init /\ [][NextErr]_vars

\* Cancellation: one caller whose context is live, cancelled or past its
\* deadline when the call is made, or becomes so while the call waits for the
\* limiter or for the server.
Contexts == {Background, Canceled, DeadlineExceeded}

CtxResponses == BasicResponses \cup {[status |-> StatusOK, body |-> BodyMalformed]}

NextCtx ==
    \/ \E opts \in RateOptionSeqs : NewClient(opts)
    \/ \E ctx \in Contexts : get(1, ctx, "cards/nope", "Card")
    \/ \E ctx \in Contexts : post(1, ctx, "cards/collection", Identifiers, "Card")
    \/ \E ctx \in Contexts : listGet(1, ctx, "symbology", "[]CardSymbol")
    \/ limiterTake(1)
    \/ clientDo(1)
    \/ \E e \in {"net/http: timeout", call[1].ctx} \ {Background} :
            doReqTransportError(1, e)
    \/ \E resp \in CtxResponses : doReqResponse(1, resp)
    \/ \E e \in Contexts \ {Background} : ctxDone(1, e)
    \/ Tick

SpecCtx == Init /\ [][NextCtx]_vars

\* Two clients: each built by its own NewClient call, the first goroutine
\* calling on the first and the second goroutine on the second.
TwoOptionSeqs ==
    {<<>>, <<WithUserAgent("custom/1.2.3")>>, <<WithLimiter(ratelimitNew(1))>>}

NextTwo ==
    \/ \E opts \in TwoOptionSeqs : NewClient(opts)
    \/ \E opts \in TwoOptionSeqs : NewClientSecond(opts)
    \/ get(1, Background, "cards/nope", "Card")
    \/ getSecond(2, Background, "cards/nope", "Card")
    \/ limiterTake(1)
    \/ limiterTakeSecond(2)
    \/ \E g \in 1..2 : clientDo(g)
    \/ \E g \in 1..2, resp \in BasicResponses : doReqResponse(g, resp)
    \/ Tick

SpecTwo == Init /\ [][NextTwo]_vars

\* The date and timestamp codecs: a receiver holding any value, on a machine
\* in any zone, is encoded, and decoded from any bytes and from its own
\* encoding.
InitTime ==
    /\ options = <<>>
    /\ constructed = FALSE
    /\ client = Nil
    /\ newErr = ErrNil
    /\ call = [g \in 1..NumGoroutines |-> idleCall]
    /\ calls = 0
    /\ recentAdmits = <<>>
    /\ recentBegins = <<>>
    /\ admissions = 0
    /\ roundTrips = 0
    /\ second = noSecond
    /\ local \in LocalZones
    /\ codec \in {[noCodec EXCEPT !.type = "Date", !.recv = t, !.prev = t] :
                        t \in AllDates}
               \cup {[noCodec EXCEPT !.type = "Timestamp", !.recv = t, !.prev = t] :
                        t \in AllTimestamps}

NextTime ==
    \/ \E b \in DateWires \cup {codec.wire}, fresh \in BOOLEAN :
            DateUnmarshalJSON(b, fresh)
    \/ DateMarshalJSON
    \/ \E b \in TimestampWires \cup {codec.wire}, fresh \in BOOLEAN :
            TimestampUnmarshalJSON(b, fresh)
    \/ TimestampMarshalJSON

SpecTime == InitTime /\ [][NextTime]_vars

----------------------------------------------------------------------------
(* Properties.  The vocabulary they are stated in is defined from the      *)
(* inputs (the option sequence, the response), not from the operators      *)
(* above.                                                                  *)

Max(S) == CHOOSE x \in S : \A y \in S : y <= x

\* positions of the options that set `field`
Setting(field) == {i \in DOMAIN options : options[i].field = field}

\* the last string given for `field`, or `default` when none was given
FinalStr(field, default) ==
    IF Setting(field) = {} THEN default ELSE options[Max(Setting(field))].str

\* a limiter option was given and the last one was WithLimiter(nil)
LimiterDisabled ==
    Setting("limiter") # {} /\ options[Max(Setting("limiter"))].ref = <<>>

\* goroutines whose request has gone out
Sent == {g \in DOMAIN call : call[g].trips > 0}
\* goroutines whose invocation has returned after a response arrived
Answered == {g \in DOMAIN call : call[g].pc = "done" /\ call[g].resp # <<>>}

MemberOf(body, m) == body.o[1][m]
Has(body, m, kind) == MemberOf(body, m).t \in {"absent", "null", kind}
Given(body, m) == MemberOf(body, m).t \notin {"absent", "null"}
IsStrings(v) == v.t = "array" /\ \A i \in DOMAIN v.a : v.a[i].t = "string"

\* a body that is an error envelope: an object whose status, code, details,
\* type and warnings, where given, are a number, strings and a string array
WellFormedErrorEnvelope(body) ==
    /\ body.t = "object"
    /\ Has(body, "status", "number")
    /\ Has(body, "code", "string")
    /\ Has(body, "details", "string")
    /\ Has(body, "type", "string")
    /\ Given(body, "warnings") => IsStrings(MemberOf(body, "warnings"))

\* C1: whenever the final configuration has a non-empty client secret and a
\* non-empty grant secret, NewClient has returned ErrMultipleSecrets and a nil
\* client, and no limiter admission and no HTTP call has happened.
C1_MultipleSecretsRejected ==
    (constructed /\ FinalStr("clientSecret", "") # "" /\ FinalStr("grantSecret", "") # "")
        => /\ newErr = "multiple secrets configured"
           /\ client = <<>>
           /\ admissions = 0
           /\ roundTrips = 0
           /\ \A g \in DOMAIN call : call[g].pc = "idle"

\* both secrets were set, the grant secret twice
C1_Witness ==
    /\ constructed
    /\ Len(options) = 3
    /\ FinalStr("clientSecret", "") = "cs-12345"
    /\ FinalStr("grantSecret", "") = "12345"
    /\ Cardinality(Setting("grantSecret")) = 2
    /\ newErr = "multiple secrets configured"

\* C2: an invocation answered with a status other than 200 has returned a
\* non-nil error, the *Error or the failure to decode the error body, and
\* has left the destination as it was.
C2_Non200IsAnError ==
    \A g \in Answered :
        call[g].resp[1].status # 200
            => /\ call[g].err.type \in
                    {"*Error", "json.SyntaxError", "json.UnmarshalTypeError", "io.EOF"}
               /\ call[g].err.type = "*Error" <=> call[g].err.api.t = "object"
               /\ call[g].dest = Zero(call[g].destType)

\* a 404 whose body would decode into the destination
C2_Witness ==
    \E g \in Answered :
        /\ call[g].kind = "get"
        /\ call[g].resp[1] = [status |-> 404, body |-> BodyCard]
        /\ call[g].err.type = "*Error"

\* the value of field m of an *Error decoded from body
ErrorField(body, m, zero) == IF Given(body, m) THEN MemberOf(body, m) ELSE zero

\* C3: a status other than 200 with a well-formed error envelope returns an
\* *Error whose Status, Code, Details, Type and Warnings are the members of
\* the body, the zero value where the body has none.
C3_ErrorCarriesEnvelope ==
    \A g \in Answered :
        LET body == call[g].resp[1].body
            e == call[g].err.api.o[1]
        IN  (call[g].resp[1].status # 200 /\ WellFormedErrorEnvelope(body))
                => /\ call[g].err.type = "*Error"
                   /\ e.status = ErrorField(body, "status", JNum(0))
                   /\ e.code = ErrorField(body, "code", JStr(""))
                   /\ e.details = ErrorField(body, "details", JStr(""))
                   /\ e.type = ErrorField(body, "type", GoNil)
                   /\ e.warnings = ErrorField(body, "warnings", GoNil)

\* the not_found fixture of TestError answered to a get
C3_Witness ==
    \E g \in Answered :
        /\ call[g].kind = "get"
        /\ call[g].resp[1] = [status |-> 404, body |-> BodyNotFound]
        /\ call[g].err.api.o[1].status.n = 404
        /\ call[g].err.api.o[1].code.s = "not_found"
        /\ call[g].err.api.o[1].type = GoNil

\* a body that has the shape of a Card: a JSON null, or an object whose id,
\* name and mtgo_id, where given, are strings and a number
MatchesCard(body) ==
    \/ body.t = "null"
    \/ /\ body.t = "object"
       /\ Has(body, "id", "string")
       /\ Has(body, "name", "string")
       /\ Has(body, "mtgo_id", "number")

CardField(body, m, zero) ==
    IF body.t = "object" /\ Given(body, m) THEN MemberOf(body, m) ELSE zero

\* C4: a get or post answered with status 200 returns nil and a destination
\* equal to the body field for field when the body has the shape of the
\* destination, and a JSON decoding error when it has not.
C4_OKDecodesIntoDestination ==
    \A g \in Answered :
        LET body == call[g].resp[1].body
            d == call[g].dest.o[1]
        IN  (call[g].kind \in {"get", "post"} /\ call[g].resp[1].status = 200)
                => IF MatchesCard(body)
                   THEN /\ call[g].err.type = "nil"
                        /\ d.id = CardField(body, "id", JStr(""))
                        /\ d.name = CardField(body, "name", JStr(""))
                        /\ d.mtgo_id = CardField(body, "mtgo_id", GoNil)
                   ELSE call[g].err.type \in
                            {"json.SyntaxError", "json.UnmarshalTypeError", "io.EOF"}

\* a post answered 200 with a card
C4_Witness ==
    \E g \in Answered :
        /\ call[g].kind = "post"
        /\ call[g].resp[1] = [status |-> 200, body |-> BodyCard]
        /\ call[g].dest.o[1].name.s = "Storm Crow"
        /\ call[g].dest.o[1].mtgo_id.n = 12
        /\ call[g].err.type = "nil"

\* C5: no invocation makes more than one HTTP round trip, whatever its
\* outcome: the round trips never outnumber the invocations started.
C5_AtMostOneRoundTrip ==
    /\ \A g \in DOMAIN call : call[g].trips <= 1
    /\ roundTrips <= calls

\* a second invocation has failed, each after its one round trip
C5_Witness ==
    /\ calls = 2
    /\ roundTrips = 2
    /\ \E g \in DOMAIN call :
        /\ call[g].pc = "done"
        /\ call[g].err.type # "nil"
        /\ call[g].trips = 1

\* the rate of the client's limiter, when it has one
LimiterRate == client[1].limiter[1].rate
Limited == client # <<>> /\ client[1].limiter # <<>>

C7_NilLimiterNeverAdmits ==
    (client # <<>> /\ LimiterDisabled)
        => /\ admissions = 0
           /\ \A g \in DOMAIN call : call[g].pc # "take" /\ call[g].took = 0

\* WithLimiter(nil) after another limiter option, and every invocation of the
\* run sent
C7_Witness ==
    /\ client # <<>>
    /\ LimiterDisabled
    /\ Cardinality(Setting("limiter")) = 2
    /\ calls = MaxCalls
    /\ roundTrips = MaxCalls

\* C8: a request that has gone out carries Authorization: "Bearer " followed
\* by the configured secret when a client secret or a grant secret was
\* configured, and no Authorization header when neither was.
C8_AuthorizationIffCredential ==
    \A g \in Sent :
        LET cs == FinalStr("clientSecret", "")
            gs == FinalStr("grantSecret", "")
            sent == call[g].header.Authorization
        IN  /\ (cs = "" /\ gs = "") <=> sent = <<>>
            /\ cs # "" => sent = <<"Bearer " \o cs>>
            /\ gs # "" => sent = <<"Bearer " \o gs>>

\* a request sent with the client secret of TestNewClientWithClientSecret, the
\* grant secret having been set back to the empty string
C8_Witness ==
    \E g \in Sent :
        /\ FinalStr("clientSecret", "") = "cs-12345"
        /\ Setting("grantSecret") # {}
        /\ call[g].header.Authorization = <<"Bearer cs-12345">>

\* C9: a request that has gone out, GET or POST, carries the User-Agent
\* "go-scryfall/" + Version when no WithUserAgent option was given and the
\* string of the last WithUserAgent option otherwise.
C9_UserAgentOnEveryRequest ==
    \A g \in Sent :
        /\ call[g].method \in {"GET", "POST"}
        /\ call[g].header.UserAgent = <<FinalStr("userAgent", "go-scryfall/0.9.0")>>

\* a POST sent with the user agent of TestNewClientUserAgent
C9_Witness ==
    \E g \in Sent :
        /\ call[g].method = "POST"
        /\ Setting("userAgent") # {}
        /\ call[g].header.UserAgent = <<"custom/1.2.3">>

\* a body that is a list envelope of card symbols
IsSymbol(v) ==
    /\ v.t = "object"
    /\ Has(v, "symbol", "string")
    /\ Has(v, "transposable", "bool")

IsListEnvelope(body) ==
    /\ body.t = "object"
    /\ MemberOf(body, "data").t = "array"
    /\ \A i \in DOMAIN MemberOf(body, "data").a : IsSymbol(MemberOf(body, "data").a[i])
    /\ Has(body, "has_more", "bool")
    /\ Has(body, "next_page", "string")
    /\ Has(body, "total_cards", "number")
    /\ Given(body, "warnings") => IsStrings(MemberOf(body, "warnings"))

\* C10: a listGet answered 200 with a list envelope returns nil and a
\* destination holding the elements of the envelope's data array, as many and
\* in the same order, whatever has_more, next_page, total_cards and warnings
\* are.
C10_ListGetYieldsData ==
    \A g \in Answered :
        LET body == call[g].resp[1].body
            data == MemberOf(body, "data").a
            dest == call[g].dest
        IN  (call[g].kind = "listGet" /\ call[g].resp[1].status = 200 /\ IsListEnvelope(body))
                => /\ call[g].err.type = "nil"
                   /\ dest.t = "array"
                   /\ Len(dest.a) = Len(data)
                   /\ \A i \in DOMAIN data :
                        /\ dest.a[i].o[1].symbol =
                              CardField(data[i], "symbol", JStr(""))
                        /\ dest.a[i].o[1].transposable =
                              CardField(data[i], "transposable", JBool(FALSE))

\* a paginated envelope of three symbols
C10_Witness ==
    \E g \in Answered :
        /\ call[g].kind = "listGet"
        /\ call[g].resp[1] = [status |-> 200, body |-> BodyListMore]
        /\ Len(call[g].dest.a) = 3
        /\ call[g].dest.a[1].o[1].symbol.s = "{Q}"
        /\ call[g].dest.a[2].o[1].symbol.s = "{T}"

\* C11: listGet does not paginate by itself: answered with an envelope that
\* has has_more = true and a next_page, it has made one HTTP request and
\* returned the items of that page only; every further request belongs to a
\* further invocation.
C11_ListGetNeverPaginates ==
    /\ roundTrips <= calls
    /\ \A g \in Answered :
        LET body == call[g].resp[1].body
        IN  (/\ call[g].kind = "listGet"
             /\ call[g].resp[1].status = 200
             /\ IsListEnvelope(body)
             /\ MemberOf(body, "has_more") = JBool(TRUE)
             /\ Given(body, "next_page"))
                => /\ call[g].trips = 1
                   /\ call[g].err.type = "nil"
                   /\ Len(call[g].dest.a) = Len(MemberOf(body, "data").a)

\* the first of two pages was fetched and the caller has not asked again
C11_Witness ==
    \E g \in Answered :
        /\ call[g].kind = "listGet"
        /\ call[g].resp[1] = [status |-> 200, body |-> BodyListMore]
        /\ call[g].trips = 1
        /\ roundTrips = 1
        /\ calls = 1
        /\ Len(call[g].dest.a) = 3

\* a body that is a list envelope of cards
IsCardListEnvelope(body) ==
    /\ body.t = "object"
    /\ MemberOf(body, "data").t = "array"
    /\ \A i \in DOMAIN MemberOf(body, "data").a :
            MemberOf(body, "data").a[i].t = "object" /\ MatchesCard(MemberOf(body, "data").a[i])
    /\ Has(body, "has_more", "bool")
    /\ Has(body, "next_page", "string")
    /\ Has(body, "total_cards", "number")
    /\ Given(body, "warnings") => IsStrings(MemberOf(body, "warnings"))

EnvelopeField(body, m, zero) == IF Given(body, m) THEN MemberOf(body, m) ELSE zero

\* dest carries the pagination members of the envelope
CarriesMetadata(dest, body) ==
    /\ dest.t = "object"
    /\ dest.o[1].has_more = EnvelopeField(body, "has_more", JBool(FALSE))
    /\ dest.o[1].next_page = EnvelopeField(body, "next_page", GoNil)
    /\ dest.o[1].total_cards = EnvelopeField(body, "total_cards", JNum(0))
    /\ dest.o[1].warnings = EnvelopeField(body, "warnings", GoNil)

\* invocations answered 200 with a list envelope of cards
EnvelopeAnswered ==
    {g \in Answered : /\ call[g].resp[1].status = 200
                      /\ IsCardListEnvelope(call[g].resp[1].body)}

WireIdentifiers ==
    Obj([identifiers |->
            JArr(<<Obj([name |-> JStr("Storm Crow")]),
                   Obj([id |-> JStr("c1"), mtgo_id |-> JNum(12)]),
                   Obj([name |-> JStr("Ornithopter"), set |-> JStr("aer")])>>)])

\* C17: a POST that has gone out and was given a request-body value carries
\* Content-Type: application/json and, as its body, the JSON encoding of that
\* value: one member per json tag, empty omitempty fields left out, a nil
\* slice as null.
C17_PostSendsMarshalledBody ==
    \A g \in Sent :
        (call[g].method = "POST" /\ call[g].reqBody.ty # "nil")
            => /\ call[g].header.ContentType = <<"application/json">>
               /\ call[g].body.t = "object"
               /\ call[g].reqBody = Identifiers => call[g].body = WireIdentifiers
               /\ call[g].reqBody = NoIdentifiers
                    => call[g].body = Obj([identifiers |-> JNull])

\* the identifiers of GetCardsByIdentifiers have gone out
C17_Witness ==
    \E g \in Sent :
        /\ call[g].method = "POST"
        /\ call[g].reqBody = Identifiers
        /\ call[g].body = WireIdentifiers
        /\ call[g].header.ContentType = <<"application/json">>

\* the destination holds every member of a 200 body that has a field
FullyDecoded(g) ==
    LET body == call[g].resp[1].body
        ret == call[g].ret
    IN  IF call[g].kind = "listGet"
        THEN /\ body.t = "object"
             /\ \/ MemberOf(body, "data").t = "null" /\ ret = GoNil
                \/ /\ MemberOf(body, "data").t = "array"
                   /\ ret.t = "array"
                   /\ Len(ret.a) = Len(MemberOf(body, "data").a)
                   /\ \A i \in DOMAIN ret.a :
                        LET item == MemberOf(body, "data").a[i]
                        IN  /\ IsSymbol(item) \/ item.t = "null"
                            /\ ret.a[i].o[1].symbol = CardField(item, "symbol", JStr(""))
                            /\ ret.a[i].o[1].transposable =
                                   CardField(item, "transposable", JBool(FALSE))
        ELSE /\ MatchesCard(body)
             /\ ret.o[1].id = CardField(body, "id", JStr(""))
             /\ ret.o[1].name = CardField(body, "name", JStr(""))
             /\ ret.o[1].mtgo_id = CardField(body, "mtgo_id", GoNil)

\* C18: an invocation that has returned hands its caller either a nil error
\* and a value holding all of the 200 body, or a non-nil error and the zero
\* value of the result type; what a failed decode left in the destination
\* does not leave the accessor.
C18_NoPartialSuccess ==
    \A g \in DOMAIN call :
        call[g].pc = "done"
            => IF call[g].err.type = "nil"
               THEN /\ call[g].resp # <<>>
                    /\ call[g].resp[1].status = 200
                    /\ call[g].ret = call[g].dest
                    /\ FullyDecoded(g)
               ELSE call[g].ret = Zero(call[g].destType)

\* the decoder stopped at the mistyped id after storing the name; the accessor
\* returns Card{}
C18_Witness ==
    \E g \in Answered :
        /\ call[g].kind = "get"
        /\ call[g].resp[1] = [status |-> 200, body |-> BodyCardMistyped]
        /\ call[g].err.type = "json.UnmarshalTypeError"
        /\ call[g].dest.o[1].name = JStr("Storm Crow")
        /\ call[g].ret = Zero("Card")

\* invocations answered with a status other than 200 and a body that is no
\* error envelope, and invocations answered 200 whose body failed to decode
ErrorBodyFailures ==
    {g \in Answered : /\ call[g].resp[1].status # 200
                      /\ ~WellFormedErrorEnvelope(call[g].resp[1].body)}
OKDecodeFailures ==
    {g \in Answered : call[g].resp[1].status = 200 /\ call[g].err.type # "nil"}

\* C19: the error returned for a status other than 200 whose body is no
\* error envelope is not an *Error and differs from the error of every
\* invocation whose 200 body failed to decode.
C19_ErrorBodyFailureIsDistinct ==
    \A g \in ErrorBodyFailures :
        /\ call[g].err.type \notin {"nil", "*Error"}
        /\ \A h \in OKDecodeFailures : call[g].err # call[h].err

\* C20: an invocation whose c.client.Do returned an error has returned that
\* very error, after one round trip, with no response read and with the
\* destination and the accessor's result at their zero value.
C20_TransportErrorVerbatim ==
    \A g \in DOMAIN call :
        (call[g].pc = "done" /\ call[g].doErr # "nil")
            => /\ call[g].err = [type |-> call[g].doErr, api |-> GoNil]
               /\ call[g].resp = <<>>
               /\ call[g].trips = 1
               /\ call[g].dest = Zero(call[g].destType)
               /\ call[g].ret = Zero(call[g].destType)

\* a listGet whose request was cancelled in flight
C20_Witness ==
    \E g \in DOMAIN call :
        /\ call[g].pc = "done"
        /\ call[g].kind = "listGet"
        /\ call[g].doErr = "context canceled"
        /\ call[g].err.type = "context canceled"
        /\ call[g].dest = GoNil

\* the same calendar day, each value read in its own location
SameDay(t, u) == t.y = u.y /\ t.mo = u.mo /\ t.d = u.d
MidnightUTC8(t) == t.sod = 0 /\ t.ns = 0 /\ t.off = -8 * 60 * 60
\* the quoted literal "YYYY-MM-DD"
IsQuotedDate(w) ==
    /\ w.quoted
    /\ Len(w.parts) = 5
    /\ w.parts[1].k = "digits" /\ Len(w.parts[1].ds) = 4
    /\ w.parts[2].s = "-"
    /\ w.parts[3].k = "digits" /\ Len(w.parts[3].ds) = 2
    /\ w.parts[4].s = "-"
    /\ w.parts[5].k = "digits" /\ Len(w.parts[5].ds) = 2

\* a Date was encoded and its encoding decoded
DateRoundTrip == codec.type = "Date" /\ codec.trail = "MU"

\* C13 as stated: for every Date value, MarshalJSON followed by UnmarshalJSON
\* of the result returns no error and yields the day of the original; for a
\* Date at midnight UTC-8 it yields the same instant and the encoding is the
\* quoted literal "YYYY-MM-DD".
C13_DateRoundTrip ==
    DateRoundTrip
        => /\ codec.err = "nil"
           /\ SameDay(codec.recv, codec.src)
           /\ MidnightUTC8(codec.src)
                => Equal(codec.recv, codec.src) /\ IsQuotedDate(codec.wire)

\* C13 as amended: the same for every Date whose year, in its own location,
\* is within 0..9999; a Date of a later year encodes with five year digits,
\* which UnmarshalJSON rejects.  The day is that of the original in its own
\* location; the instants differ unless the original was midnight UTC-8.
C13_DateRoundTripFourDigitYear ==
    DateRoundTrip
        => IF codec.src.y \in 0..9999
           THEN /\ codec.err = "nil"
                /\ SameDay(codec.recv, codec.src)
                /\ MidnightUTC8(codec.recv)
                /\ MidnightUTC8(codec.src)
                     => Equal(codec.recv, codec.src) /\ IsQuotedDate(codec.wire)
           ELSE codec.err # "nil" /\ codec.recv = codec.prev

\* April 27, 2018, 23:59:59 at UTC+14 came back as midnight UTC-8 of April 27,
\* a day and a half later
C13_Witness ==
    /\ DateRoundTrip
    /\ codec.src = Time(2018, 4, 27, 23 * 3600 + 59 * 60 + 59, 0, 14 * 3600)
    /\ codec.wire = Wire(TRUE, DateText(<<2,0,1,8>>, <<0,4>>, <<2,7>>))
    /\ codec.recv = Time(2018, 4, 27, 0, 0, -8 * 60 * 60)
    /\ ~Equal(codec.recv, codec.src)

\* the value that was encoded had been stored by a decode: parsed from the
\* bytes, or left in a fresh receiver by null
DecodedBefore ==
    /\ codec.trail = "UMU"
    /\ codec.fromFresh \/ codec.from.parts # <<text("null")>>

\* C14: for Date and for Timestamp, a value produced by decoding (null
\* included), once encoded and decoded again, is the same instant.
C14_DecodedValueRoundTrips ==
    DecodedBefore => codec.err = "nil" /\ Equal(codec.recv, codec.src)

\* UnmarshalJSON was applied to the literal null
NullDecoded == codec.trail = "U" /\ codec.wire = Wire(FALSE, <<text("null")>>)

\* C15 as stated: Date.UnmarshalJSON and Timestamp.UnmarshalJSON applied to
\* null return no error and the receiver holds the zero instant afterwards.
C15_NullYieldsZero ==
    NullDecoded => codec.err = "nil" /\ IsZero(codec.recv)

\* C15 as amended: applied to null they return no error and leave the
\* receiver as it was; it holds the zero instant afterwards when it held it
\* before, as a fresh Date{} or Timestamp{} does.
C15_NullLeavesReceiver ==
    NullDecoded
        => /\ codec.err = "nil"
           /\ codec.recv = codec.prev
           /\ codec.fromFresh => codec.recv = Time(1, 1, 1, 0, 0, 0)

\* null decoded into a Date that held April 27, 2018
C15_Witness ==
    /\ NullDecoded
    /\ codec.type = "Date"
    /\ ~codec.fromFresh
    /\ codec.prev = Time(2018, 4, 27, 0, 0, -8 * 60 * 60)
    /\ codec.recv = codec.prev
    /\ codec.err = "nil"

\* C16: Date.UnmarshalJSON stores, for a well-formed date, midnight of that
\* day at UTC-8 whatever time.Local is; for any other value (the literal null
\* apart, which is a case of its own) it returns an error and leaves the
\* receiver as it was.
C16_DateDecodesAtUTC8 ==
    (codec.type = "Date" /\ codec.trail = "U" /\ codec.wire \in DateWires /\ ~NullDecoded)
        => IF \E f \in DateFixtures : f.parts = codec.wire.parts
           THEN /\ codec.err = "nil"
                /\ \A f \in DateFixtures :
                     f.parts = codec.wire.parts
                        => codec.recv = Time(f.y, f.mo, f.d, 0, 0, -8 * 60 * 60)
           ELSE codec.err # "nil" /\ codec.recv = codec.prev

----------------------------------------------------------------------------
(* Cancellation.                                                           *)

\* the invocation of goroutine g has returned after doReq was entered
ReturnedFromDoReq(g) == call[g].pc = "done" /\ call[g].header.Accept # Nil

\* C21: an invocation whose context was cancelled, or whose deadline passed,
\* while its HTTP request was in flight returns that context's error and
\* nothing else: no response is taken, the error is not an API error, and the
\* destination and the value the accessor returns are the zero value.
C21_CancelledInFlightReturnsCancellation ==
    \A g \in DOMAIN call :
        (call[g].pc = "done" /\ call[g].ctxAt = "inflight")
            => /\ call[g].ctx \in {"context canceled", "context deadline exceeded"}
               /\ call[g].err = [type |-> call[g].ctx, api |-> GoNil]
               /\ call[g].resp = <<>>
               /\ call[g].trips = 1
               /\ call[g].dest = Zero(call[g].destType)
               /\ call[g].ret = Zero(call[g].destType)

C21_Witness ==
    \E g \in DOMAIN call :
        /\ call[g].pc = "done"
        /\ call[g].ctxAt = "inflight"
        /\ call[g].kind = "post"
        /\ call[g].err.type = "context deadline exceeded"
        /\ client[1].limiter # <<>>

----------------------------------------------------------------------------
(* Concurrent callers.                                                     *)

\* goroutines waiting in c.limiter.Take()
Waiting == {g \in DOMAIN call : call[g].pc = "take"}

\* C22: once the client is constructed no step changes it or the arguments
\* it was built from, whatever the callers do; and with an enabled limiter
\* the admissions granted so far are as many as the invocations made so far
\* that are not still waiting for theirs, each holding exactly one.
C22_OnlyLimiterStateShared ==
    [][constructed =>
        /\ client' = client
        /\ options' = options
        /\ newErr' = newErr
        /\ (Limited => /\ admissions' + Cardinality(Waiting') = calls'
                       /\ \A g \in DOMAIN call :
                            call'[g].pc \in {"do", "inflight", "done"}
                                => call'[g].took = 1)]_vars

C22_Witness ==
    /\ Limited
    /\ calls = 2
    /\ admissions = 1
    /\ call[1].pc = "inflight"
    /\ call[2].pc = "take"
    /\ call[1].took = 1 /\ call[2].took = 0

----------------------------------------------------------------------------
(* Two clients.                                                            *)

\* no WithLimiter among the options opts
KeepsDefaultLimiter(opts) == \A i \in DOMAIN opts : opts[i].field # "limiter"

\* the invocation of goroutine g takes a step, and is on client n after it
StepOn(g, n) == call'[g] # call[g] /\ call'[g].on = n

\* C23: when at least one of two clients was built without a limiter option,
\* a step of an invocation on one of them leaves the other as it was: its
\* fields, the options it was built from and the admissions its limiter has
\* counted.  An invocation waiting for admission on a client that kept the
\* default limiter can be admitted whenever that client's own limiter has
\* granted fewer than its rate in the last second, whatever the other
\* client's limiter has granted.
C23_ClientsIndependent ==
    [][(KeepsDefaultLimiter(options) \/ KeepsDefaultLimiter(second.options)) =>
        \A g \in DOMAIN call :
            /\ StepOn(g, 1) => second' = second
            /\ StepOn(g, 2) => /\ client' = client
                               /\ options' = options
                               /\ recentAdmits' = recentAdmits
                               /\ admissions' = admissions
            /\ (/\ call[g].pc = "take" /\ call[g].on = 2
                /\ KeepsDefaultLimiter(second.options)
                /\ Len(second.recentAdmits) < defaultReqPerSecond)
                    => ENABLED limiterTakeSecond(g)
            /\ (/\ call[g].pc = "take" /\ call[g].on = 1
                /\ KeepsDefaultLimiter(options)
                /\ Len(recentAdmits) < defaultReqPerSecond)
                    => ENABLED limiterTake(g)]_vars

\* the first client's limiter, the caller's own, is exhausted by a call, and
\* a call on the second client, which kept its default, has been admitted
C23_Witness ==
    /\ ~KeepsDefaultLimiter(options)
    /\ second.constructed /\ KeepsDefaultLimiter(second.options)
    /\ call[1].on = 1 /\ call[1].took = 1
    /\ Len(recentAdmits) = 1 /\ admissions = 1
    /\ call[2].on = 2 /\ call[2].took = 1 /\ call[2].pc = "inflight"
    /\ second.admissions = 1

----------------------------------------------------------------------------
(* The order of the steps of doReq.                                        *)

\* C24: with an enabled limiter, an invocation waiting for admission has its
\* User-Agent and Accept headers set and has neither an admission nor a
\* request out; one that is about to send, is in flight or has returned
\* from doReq holds exactly one admission, whether it is a get, a post or a
\* listGet.
C24_OneAdmissionBeforeRoundTrip ==
    Limited =>
        \A g \in DOMAIN call :
            /\ call[g].pc = "take"
                => /\ call[g].took = 0 /\ call[g].trips = 0
                   /\ call[g].header.UserAgent # <<>>
                   /\ call[g].header.Accept = <<"application/json">>
            /\ call[g].pc = "do" => call[g].took = 1 /\ call[g].trips = 0
            /\ call[g].pc = "inflight" => call[g].took = 1 /\ call[g].trips = 1
            /\ ReturnedFromDoReq(g) => call[g].took = 1 /\ call[g].trips = 1

C24_Witness ==
    /\ Limited
    /\ call[1].kind = "listGet"
    /\ ReturnedFromDoReq(1)
    /\ call[1].took = 1 /\ call[1].trips = 1
    /\ admissions = 1 /\ roundTrips = 1 /\ calls = 1

\* C25: an invocation waiting for admission whose context is done, whether it
\* was done before the call or became so during the wait, does not return
\* from the wait: its next step is the admission, taken only when the limiter
\* has granted fewer than its rate in the last second.  When it has returned,
\* it holds that admission, has sent nothing, and returns the context's
\* error, which c.client.Do reported.
C25_WaitIgnoresContext ==
    [][\A g \in DOMAIN call :
        /\ (call[g].pc = "take" /\ call[g].ctx # "nil" /\ call'[g] # call[g])
            => /\ call'[g].pc = "do"
               /\ Len(recentAdmits) < LimiterRate
               /\ admissions' = admissions + 1
               /\ call'[g].took = 1
               /\ call'[g].ctx = call[g].ctx
        /\ (call'[g].pc = "done" /\ call'[g].ctxAt \in {"before", "take"}
                /\ call'[g].header.Accept # <<>> /\ client[1].limiter # <<>>)
            => /\ call'[g].took = 1
               /\ call'[g].trips = 0
               /\ call'[g].doErr = call'[g].ctx
               /\ call'[g].err = [type |-> call'[g].ctx, api |-> GoNil]]_vars

\* the context is done and the invocation is still waiting, the limiter
\* having granted its one admission of this second to the call before
C25_Witness ==
    /\ Limited
    /\ call[1].pc = "take"
    /\ call[1].ctx = "context deadline exceeded"
    /\ call[1].ctxAt = "take"
    /\ Len(recentAdmits) = LimiterRate
    /\ calls = 2

----------------------------------------------------------------------------
(* Errors before doReq.                                                    *)

\* C26: an invocation given a relative URL that does not parse, or a post
\* given a request body that cannot be marshalled, has returned that error
\* with no header set, no admission taken, no request sent and no response
\* read, its destination and the accessor's result being the zero value; and
\* the step that made it left the limiter's admissions and the requests
\* begun as they were.
C26_EarlyErrorsTouchNothing ==
    [][\A g \in DOMAIN call :
        LET c == call'[g]
            badURL == c.relativeURL = ":bad"
            badBody == c.kind = "post" /\ c.reqBody = [ty |-> "chan", v |-> GoNil]
        IN  (c.pc # "idle" /\ (badURL \/ badBody))
            => /\ c.pc = "done"
               /\ c.err = [type |-> IF badURL THEN "url.Error"
                                    ELSE "json.UnsupportedTypeError",
                           api |-> GoNil]
               /\ c.header = [UserAgent |-> <<>>, Accept |-> <<>>,
                              Authorization |-> <<>>, ContentType |-> <<>>]
               /\ c.took = 0 /\ c.trips = 0 /\ c.resp = <<>> /\ c.body = GoNil
               /\ c.dest = Zero(c.destType) /\ c.ret = Zero(c.destType)
               /\ c # call[g] => /\ recentAdmits' = recentAdmits
                                 /\ admissions' = admissions
                                 /\ recentBegins' = recentBegins
                                 /\ roundTrips' = roundTrips]_vars

\* after a call that was admitted and sent, a post whose body cannot be
\* marshalled has failed on a limited client
C26_Witness ==
    /\ Limited
    /\ calls = 2 /\ admissions = 1 /\ roundTrips = 1
    /\ call[1].pc = "done"
    /\ call[1].kind = "post"
    /\ call[1].relativeURL = "cards/nope"
    /\ call[1].reqBody = Unmarshalable
    /\ call[1].err.type = "json.UnsupportedTypeError"

----------------------------------------------------------------------------
(* Failed calls and the limiter.                                           *)

\* C27: no step lowers the count of admissions granted, no step of an
\* invocation removes an admission from the limiter's last second or lowers
\* what the invocation has taken, and an invocation on a limited client that
\* has returned an error from doReq (a transport error, the error of a
\* context done before or during the call, an API error or a decoding error)
\* holds exactly one admission.
C27_AdmissionNeverReturned ==
    [][/\ admissions' >= admissions
       /\ call' # call => Len(recentAdmits') >= Len(recentAdmits)
       /\ \A g \in DOMAIN call :
            /\ call[g].pc \in {"take", "do", "inflight"}
                => call'[g].took >= call[g].took
            /\ (/\ Limited'
                /\ call'[g].pc = "done"
                /\ call'[g].header.Accept # <<>>
                /\ call'[g].err.type # "nil")
                => call'[g].took = 1]_vars

\* a call made with a context that was already cancelled has failed, and has
\* taken an admission
C27_Witness ==
    /\ Limited
    /\ call[1].pc = "done"
    /\ call[1].ctxAt = "before"
    /\ call[1].err.type = "context canceled"
    /\ call[1].took = 1 /\ call[1].trips = 0
    /\ admissions = 1 /\ Len(recentAdmits) = 1

----------------------------------------------------------------------------
(* Content-Type and Accept.                                                *)

\* C28: a request that has gone out carries Accept: application/json; one
\* sent by post is a POST carrying Content-Type: application/json, with a
\* body or without; one sent by get or listGet is a GET with no Content-Type.
C28_ContentTypeOnPostOnly ==
    \A g \in Sent :
        /\ call[g].header.Accept = <<"application/json">>
        /\ call[g].kind = "post"
            => /\ call[g].method = "POST"
               /\ call[g].header.ContentType = <<"application/json">>
        /\ call[g].kind \in {"get", "listGet"}
            => /\ call[g].method = "GET"
               /\ call[g].header.ContentType = <<>>
               /\ call[g].body = GoNil

\* a POST sent for a nil request body: nothing attached, Content-Type set
C28_Witness ==
    \E g \in Sent :
        /\ call[g].kind = "post"
        /\ call[g].reqBody = NilIface
        /\ call[g].body = GoNil
        /\ call[g].header.ContentType = <<"application/json">>

----------------------------------------------------------------------------
(* null and the receiver.                                                  *)

\* C29: after Date.UnmarshalJSON or Timestamp.UnmarshalJSON has read null,
\* the receiver holds the instant it held before the call: a non-zero instant
\* is still that instant, and the receiver is zero only if it was zero before.
C29_NullKeepsInstant ==
    NullDecoded
        => /\ Equal(codec.recv, codec.prev)
           /\ ~IsZero(codec.prev) => ~IsZero(codec.recv)
           /\ IsZero(codec.recv) => IsZero(codec.prev)

\* null read into a Timestamp that held a non-zero instant
C29_Witness ==
    /\ NullDecoded
    /\ codec.type = "Timestamp"
    /\ ~codec.fromFresh
    /\ ~IsZero(codec.prev)
    /\ Equal(codec.recv, codec.prev)

----------------------------------------------------------------------------
(* The order of the options.                                               *)

\* the limiter of the last WithLimiter option, or the default one
FinalLimiter ==
    IF Setting("limiter") = {} THEN <<[rate |-> 10]>>
    ELSE options[Max(Setting("limiter"))].ref

\* C30: what NewClient returns is decided by the last value given for each
\* field.  Two non-empty final secrets are refused; failing that, a final
\* base URL that does not parse is refused; otherwise the client holds the
\* final base URL, user agent and limiter, and the bearer token of the one
\* secret whose final value is not empty, which is what its requests carry.
C30_LastOptionWins ==
    constructed =>
        LET cs == FinalStr("clientSecret", "")
            gs == FinalStr("grantSecret", "")
            bu == FinalStr("baseURL", "https://api.scryfall.com")
            conflict == cs # "" /\ gs # ""
            auth == IF gs # "" THEN "Bearer " \o gs
                    ELSE IF cs # "" THEN "Bearer " \o cs ELSE ""
        IN  /\ conflict => client = <<>> /\ newErr = "multiple secrets configured"
            /\ (~conflict /\ bu = ":bad") => client = <<>> /\ newErr = "url.Error"
            /\ (~conflict /\ bu # ":bad")
                => /\ newErr = "nil"
                   /\ client # <<>>
                   /\ client[1].baseURL = bu
                   /\ client[1].userAgent = FinalStr("userAgent", "go-scryfall/0.9.0")
                   /\ client[1].authorization = auth
                   /\ client[1].limiter = FinalLimiter
                   /\ \A g \in Sent :
                        call[g].header.Authorization =
                            IF auth = "" THEN <<>> ELSE <<auth>>
                   /\ \A g \in DOMAIN call :
                        call[g].took > 0 => FinalLimiter # <<>>

\* WithClientSecret(a), WithGrantSecret(b), WithGrantSecret(""): the client
\* is built and its request carries Bearer a
C30_Witness ==
    /\ options = <<WithClientSecret("cs-12345"), WithGrantSecret("12345"),
                   WithGrantSecret("")>>
    /\ newErr = "nil"
    /\ \E g \in Sent : call[g].header.Authorization = <<"Bearer cs-12345">>

====
